---- MODULE Spec2Model ----
(***************************************************************************)
(* Vernachain consensus core: the Validator Registry (ValidatorManager),   *)
(* the Consensus Selector (ProofOfStake), the Shard Directory              *)
(* (MasterChain), the Shard Chains, the Transaction Pool and the Chain      *)
(* Orchestrator (Blockchain).                                               *)
(*                                                                         *)
(* Amounts are Python floats in the source; the model uses integers, so    *)
(* every amount it draws is exactly representable and float rounding is    *)
(* out of the model.  ProofOfStake amounts are counted in 1/Scale of a      *)
(* token so that the 10% slash of record_block_production stays exact.      *)
(* Reputation is counted in tenths of a point (the restore step is 0.1).    *)
(* SHA-256 is modelled as an injective constructor: a digest is the tagged  *)
(* tuple of what was hashed.                                                *)
(***************************************************************************)
EXTENDS Integers, Sequences, FiniteSets, TLC

VARIABLES
    now,                \* the wall clock read by datetime.now() / time.time(), in hours
    last,               \* the last call made and what it returned
    vm_validators,      \* ValidatorManager.validators : address -> ValidatorStats
    vm_active_set,      \* ValidatorManager.active_set
    jailed_validators,  \* ValidatorManager.jailed_validators
    unbonding_queue,    \* ValidatorManager.unbonding_queue : address -> list of (delegator, amount, time)
    pos_validators,     \* ProofOfStake.validators : address -> Validator
    pos_active_set,     \* ProofOfStake.active_set
    shards,             \* MasterChain.shards : shard id -> ShardInfo
    msgs,               \* the CrossShardMessage objects created so far, by identity
    cross_shard_messages, \* MasterChain.cross_shard_messages : message hash -> message object
    chains,             \* ShardChain.chain of every shard
    pending_messages,   \* ShardChain.pending_messages of every shard (message objects)
    processed_messages, \* ShardChain.processed_messages of every shard
    pool,               \* TransactionPool.pending_transactions
    chain,              \* Blockchain.chain, the list of block dicts
    bridge              \* the BridgeManager object: its fields by name

vmVars == <<vm_validators, vm_active_set, jailed_validators, unbonding_queue>>
posVars == <<pos_validators, pos_active_set>>
msgVars == <<msgs, cross_shard_messages>>
chainVars == <<chains, pending_messages, processed_messages>>
vars == <<now, last, vmVars, posVars, shards, msgVars, chainVars, pool, chain, bridge>>
\* what the Validator Registry's operations leave alone
vmFrame == <<posVars, shards, msgVars, chainVars, pool, chain, bridge>>
\* what the Consensus Selector's and the Directory's operations leave alone
posFrame == <<vmVars, msgVars, chainVars, pool, chain, bridge>>
\* what the Shard Chains' and the Directory's message operations leave alone
shardFrame == <<now, vmVars, posVars, pool, chain, bridge>>
\* what the orchestrator's sharded operations leave alone
orchFrame == <<now, vmVars, chain, bridge>>
\* what the orchestrator's block-dict operations leave alone
dictFrame == <<now, posVars, shards, msgVars, chainVars, pool, bridge>>
\* what the Transaction Pool's own operations leave alone
poolFrame == <<now, vmVars, posVars, shards, msgVars, chainVars, chain, bridge>>
\* what the Bridge's operations leave alone
bridgeFrame == <<now, vmVars, posVars, shards, msgVars, chainVars, pool, chain>>

----------------------------------------------------------------------------
(* Bounds of the model *)

\* delegate is explored while the delegated stake of all validators stays within this
MaxDelegated == 200
\* undelegate is explored while fewer entries than this are queued for unbonding
MaxUnbonding == 1
\* update_reputation is explored while a validator has fewer recorded events than this
MaxEvents == 1

\* a validator is slashed while its slashed_amount is below this many tokens
MaxSlashed == 40
\* a miss is recorded while the validator has fewer consecutive misses than this
MaxMisses == 3
\* Blockchain(num_shards): the number of shards
NumShards == 2

\* a Shard Chain grows up to this many blocks, the genesis block included
MaxChain == 4
\* the number of CrossShardMessage objects created in a run
MaxMessages == 1

\* add_block is offered blocks of a validator with fewer recorded events than this
MaxBlockEvents == 2

\* the jailing thresholds are explored while a validator has fewer recorded events than this
MaxJailEvents == 11
MaxQueued == 2
\* blocks a shard chain may already hold when a round of block production starts
MaxRounds == 1
\* the Transaction Pool is explored while it holds fewer transactions than this
MaxPool == 3
\* initiate_transfer is explored while the Bridge holds fewer transfers than this
MaxTransfers == 1
\* validate_transfer is explored while the transfers carry fewer signatures than this
MaxSignatures == 3
\* message objects created while the overwriting of registry entries is explored
MaxCreated == 2
MaxRegistryDelegated == 500
MaxCrowdStake == 10300

\* ProofOfStake amounts are counted in 1/Unit of a token
Unit == 10 * 10 * 10

\* the instants at which the clock is read
ClockValues == {0, 336}
UnbondingClock == {0, 200, 336, 536}

VMAddrs == {"v1", "v2"}
\* the validator that delegations, events and jailing are addressed to
Targets == {"v1"}
DelegatorAddrs == {"d1", "d2"}
RegStakes == {500, 9000}
RegistryStakes == {500, 2000, 9000}
RegistryAmounts == {100, 500}
DelegateAmounts == {50, 100}
UndelegateAmounts == {50, 250}
PosAddrs == {"p1", "p2"}
SelectAddrs == {"p1", "p2", "p3"}
SelectStakes == {100 * Unit, 800 * Unit}
DrawCell == 50 * Unit            \* the width of the intervals the range of a draw is cut into
Producers == {"p1"}
StakeInputs == {50 * Unit, 100 * Unit, 20000 * Unit}
SlashInputs == {30 * Unit, 150 * Unit}
EventTypes == {"block_proposed", "missed_block", "invalid_block", "double_sign"}

----------------------------------------------------------------------------
(* Program constants *)

POS_MIN_STAKE == 100             \* ProofOfStake.MIN_STAKE, in tokens
MAX_EFFECTIVE_STAKE == 10000     \* ProofOfStake.MAX_EFFECTIVE_STAKE, in tokens
MAX_MISSED_BLOCKS == 3
SLASH_PERCENT == 10              \* SLASH_PERCENTAGE = 0.1
BLOCK_TIME_WINDOW == 60          \* seconds

MIN_VALIDATORS == 2              \* BridgeManager(min_validators=2), as the tests build it
MAX_TRANSFER_LIMIT == 1000000    \* max_transfer_limit, in tokens
DAILY_VOLUME_LIMIT == 5000000    \* daily_volume_limit, in tokens
HOURS_PER_DAY == 24              \* timedelta.days counts whole days

MIN_REPUTATION == 500            \* min_reputation = 50.0, in tenths
VM_MIN_STAKE == 1000             \* ValidatorManager.get_min_stake()
MAX_STAKE_RATIO_PCT == 10        \* max_stake_ratio = 0.10
MAX_DELEGATORS == 100
MIN_DELEGATION == 100
UNBONDING_HOURS == 336           \* unbonding_time = timedelta(days=14)
INACTIVITY_HOURS == 6            \* penalty_thresholds['inactivity']
MISSED_BLOCKS_THRESHOLD == 10
INVALID_BLOCKS_THRESHOLD == 3
DOUBLE_SIGNING_THRESHOLD == 1
FULL_REPUTATION == 1000          \* reputation_score = 100.0, in tenths
RESTORE_STEP == 1                \* min(0.1, ...), in tenths

----------------------------------------------------------------------------
(* Helpers *)

EmptyMap == [x \in {} |-> 0]
MapRemove(m, k) == [x \in (DOMAIN m) \ {k} |-> m[x]]
MapPut(m, k, v) == [x \in (DOMAIN m) \cup {k} |-> IF x = k THEN v ELSE m[x]]
Max(a, b) == IF a >= b THEN a ELSE b
Min(a, b) == IF a <= b THEN a ELSE b

RECURSIVE SumOver(_, _)
\* the sum of f[x] over the x of S
SumOver(f, S) ==
    IF S = {} THEN 0
    ELSE LET x == CHOOSE y \in S : TRUE IN f[x] + SumOver(f, S \ {x})


\* the clock never goes back; it advances to one of the given values
TickTo(values) ==
    /\ \E t \in values : t > now /\ now' = t
    /\ last' = [op |-> "tick"]
    /\ UNCHANGED <<vmVars, posVars, shards, msgVars, chainVars, pool, chain, bridge>>

Tick == TickTo(ClockValues)

----------------------------------------------------------------------------
(* Validator Registry: consensus/validator_manager.py *)

\* ValidatorStats(total_stake=stake, self_stake=stake), the other fields at their defaults
ValidatorStats(stake) ==
    [ total_stake |-> stake, self_stake |-> stake, delegated_stake |-> 0,
      delegators |-> EmptyMap, reputation_score |-> FULL_REPUTATION,
      blocks_proposed |-> 0, missed_blocks |-> 0, invalid_blocks |-> 0,
      double_signs |-> 0, last_active |-> now ]

VMTotalStake == SumOver([a \in DOMAIN vm_validators |-> vm_validators[a].total_stake],
                        DOMAIN vm_validators)

VMTotalDelegated == SumOver([a \in DOMAIN vm_validators |-> vm_validators[a].delegated_stake],
                            DOMAIN vm_validators)

\* a mutation of OverStakeRatio: no registration is refused for its share
OverStakeRatio_never(total, stake) == FALSE

\* stake_amount / (total_stake + stake_amount) > max_stake_ratio
OverStakeRatio(total, stake) ==
    total > 0 /\ 100 * stake > MAX_STAKE_RATIO_PCT * (total + stake)

register_validator(address, stake_amount) ==
    /\ IF address \in DOMAIN vm_validators \/ OverStakeRatio(VMTotalStake, stake_amount)
       THEN /\ UNCHANGED vmVars
            /\ last' = [op |-> "register_validator", address |-> address,
                        amount |-> stake_amount, ret |-> FALSE]
       ELSE /\ vm_validators' = MapPut(vm_validators, address, ValidatorStats(stake_amount))
            /\ vm_active_set' = IF stake_amount >= VM_MIN_STAKE
                                THEN vm_active_set \cup {address} ELSE vm_active_set
            /\ UNCHANGED <<jailed_validators, unbonding_queue>>
            /\ last' = [op |-> "register_validator", address |-> address,
                        amount |-> stake_amount, ret |-> TRUE]
    /\ UNCHANGED now

\* a mutation of Delegated: a further delegation replaces the delegator's amount
Delegated_replacing(stats, delegator_address, amount) ==
    [stats EXCEPT
        !.delegators = MapPut(@, delegator_address, amount),
        !.delegated_stake = @ + amount,
        !.total_stake = @ + amount]

\* the bookkeeping of a delegation that passed the checks
Delegated(stats, delegator_address, amount) ==
    [stats EXCEPT
        !.delegators = MapPut(@, delegator_address,
            IF delegator_address \in DOMAIN stats.delegators
            THEN stats.delegators[delegator_address] + amount
            ELSE amount),
        !.delegated_stake = @ + amount,
        !.total_stake = @ + amount]

\* a mutation of delegate_within: the number of delegators is not limited
delegate_within_unlimited(validator_address, delegator_address, amount, bound) ==
    /\ IF validator_address \notin DOMAIN vm_validators \/ amount < MIN_DELEGATION
       THEN /\ UNCHANGED vmVars
            /\ last' = [op |-> "delegate", address |-> validator_address,
                        delegator |-> delegator_address, amount |-> amount, ret |-> FALSE]
       ELSE /\ VMTotalDelegated + amount <= bound
            /\ vm_validators' = [vm_validators EXCEPT ![validator_address] =
                   Delegated(vm_validators[validator_address], delegator_address, amount)]
            /\ UNCHANGED <<vm_active_set, jailed_validators, unbonding_queue>>
            /\ last' = [op |-> "delegate", address |-> validator_address,
                        delegator |-> delegator_address, amount |-> amount, ret |-> TRUE]
    /\ UNCHANGED now

\* ValidatorManager.delegate, explored while the delegated stake stays within bound
delegate_within(validator_address, delegator_address, amount, bound) ==
    /\ IF validator_address \notin DOMAIN vm_validators \/ amount < MIN_DELEGATION
       THEN /\ UNCHANGED vmVars
            /\ last' = [op |-> "delegate", address |-> validator_address,
                        delegator |-> delegator_address, amount |-> amount, ret |-> FALSE]
       ELSE LET stats == vm_validators[validator_address] IN
            IF /\ Cardinality(DOMAIN stats.delegators) >= MAX_DELEGATORS
               /\ delegator_address \notin DOMAIN stats.delegators
            THEN /\ UNCHANGED vmVars
                 /\ last' = [op |-> "delegate", address |-> validator_address,
                             delegator |-> delegator_address, amount |-> amount,
                             ret |-> FALSE]
            ELSE /\ VMTotalDelegated + amount <= bound
                 /\ vm_validators' = [vm_validators EXCEPT ![validator_address] =
                        Delegated(stats, delegator_address, amount)]
                 /\ UNCHANGED <<vm_active_set, jailed_validators, unbonding_queue>>
                 /\ last' = [op |-> "delegate", address |-> validator_address,
                             delegator |-> delegator_address, amount |-> amount, ret |-> TRUE]
    /\ UNCHANGED now

delegate(validator_address, delegator_address, amount) ==
    delegate_within(validator_address, delegator_address, amount, MaxDelegated)

\* unbonding_queue is a dict in insertion order: a sequence of <<validator, queue>>
UnbondingKeys == { unbonding_queue[i][1] : i \in 1..Len(unbonding_queue) }
UnbondingIndex(validator_address) ==
    CHOOSE i \in 1..Len(unbonding_queue) : unbonding_queue[i][1] = validator_address
UnbondingCount == SumOver([i \in 1..Len(unbonding_queue) |-> Len(unbonding_queue[i][2])],
                         1..Len(unbonding_queue))
UnbondingOf(validator_address) ==
    IF validator_address \in UnbondingKeys
    THEN unbonding_queue[UnbondingIndex(validator_address)][2] ELSE <<>>

\* a mutation of Undelegated: the total stake is not lowered
Undelegated_keeps_total(stats, delegator_address, amount) ==
    LET left == stats.delegators[delegator_address] - amount IN
    [stats EXCEPT
        !.delegators = IF left = 0 THEN MapRemove(@, delegator_address)
                       ELSE MapPut(@, delegator_address, left),
        !.delegated_stake = @ - amount]

\* a mutation of Undelegated: a delegator left with nothing keeps a record
Undelegated_keeps_record(stats, delegator_address, amount) ==
    LET left == stats.delegators[delegator_address] - amount IN
    [stats EXCEPT
        !.delegators = MapPut(@, delegator_address, left),
        !.delegated_stake = @ - amount,
        !.total_stake = @ - amount]

\* the stake update of an undelegation that passed the checks
Undelegated(stats, delegator_address, amount) ==
    LET left == stats.delegators[delegator_address] - amount IN
    [stats EXCEPT
        !.delegators = IF left = 0 THEN MapRemove(@, delegator_address)
                       ELSE MapPut(@, delegator_address, left),
        !.delegated_stake = @ - amount,
        !.total_stake = @ - amount]

\* ValidatorManager.undelegate, explored while fewer than bound entries are queued
\* a mutation of undelegate_within: an amount above the delegator's balance is refused
\* only after the unbonding entry has been queued
undelegate_within_queued_first(validator_address, delegator_address, amount, bound) ==
    /\ IF \/ validator_address \notin DOMAIN vm_validators
          \/ delegator_address \notin DOMAIN vm_validators[validator_address].delegators
       THEN /\ UNCHANGED vmVars
            /\ last' = [op |-> "undelegate", ret |-> FALSE]
       ELSE LET stats == vm_validators[validator_address]
                entry == <<delegator_address, amount, now + UNBONDING_HOURS>>
                refused == amount > stats.delegators[delegator_address] IN
            /\ UnbondingCount < bound
            /\ unbonding_queue' =
                   IF validator_address \in UnbondingKeys
                   THEN [unbonding_queue EXCEPT ![UnbondingIndex(validator_address)] =
                            <<validator_address, Append(@[2], entry)>>]
                   ELSE Append(unbonding_queue, <<validator_address, <<entry>>>>)
            /\ vm_validators' = IF refused THEN vm_validators
                                ELSE [vm_validators EXCEPT ![validator_address] =
                                         Undelegated(stats, delegator_address, amount)]
            /\ UNCHANGED <<vm_active_set, jailed_validators>>
            /\ last' = IF refused THEN [op |-> "undelegate", ret |-> FALSE]
                       ELSE [op |-> "undelegate", address |-> validator_address,
                             delegator |-> delegator_address, amount |-> amount,
                             ret |-> TRUE]
    /\ UNCHANGED now

undelegate_within(validator_address, delegator_address, amount, bound) ==
    /\ IF \/ validator_address \notin DOMAIN vm_validators
          \/ delegator_address \notin DOMAIN vm_validators[validator_address].delegators
          \/ amount > vm_validators[validator_address].delegators[delegator_address]
       THEN /\ UNCHANGED vmVars
            /\ last' = [op |-> "undelegate", ret |-> FALSE]
       ELSE LET stats == vm_validators[validator_address]
                entry == <<delegator_address, amount, now + UNBONDING_HOURS>> IN
            /\ UnbondingCount < bound
            /\ unbonding_queue' =
                   IF validator_address \in UnbondingKeys
                   THEN [unbonding_queue EXCEPT ![UnbondingIndex(validator_address)] =
                            <<validator_address, Append(@[2], entry)>>]
                   ELSE Append(unbonding_queue, <<validator_address, <<entry>>>>)
            /\ vm_validators' = [vm_validators EXCEPT ![validator_address] =
                   Undelegated(stats, delegator_address, amount)]
            /\ UNCHANGED <<vm_active_set, jailed_validators>>
            /\ last' = [op |-> "undelegate", address |-> validator_address,
                        delegator |-> delegator_address, amount |-> amount, ret |-> TRUE]
    /\ UNCHANGED now

undelegate(validator_address, delegator_address, amount) ==
    undelegate_within(validator_address, delegator_address, amount, MaxUnbonding)

\* a mutation of Released: every queued entry is handed out, ripe or not
Released_early(queue) == queue

\* the entries of one queue whose waiting period is over, and the others, in queue order
Released(queue) == SelectSeq(queue, LAMBDA e : now >= e[3])
Remaining(queue) == SelectSeq(queue, LAMBDA e : ~(now >= e[3]))

RECURSIVE Completed(_)
\* the list process_unbonding returns, built over the first i validators of the queue
Completed(i) ==
    IF i = 0 THEN <<>>
    ELSE Completed(i - 1) \o
         [k \in 1..Len(Released(unbonding_queue[i][2])) |->
            <<unbonding_queue[i][1], Released(unbonding_queue[i][2])[k][1],
              Released(unbonding_queue[i][2])[k][2]>>]

process_unbonding ==
    /\ unbonding_queue' = [i \in 1..Len(unbonding_queue) |->
                              <<unbonding_queue[i][1], Remaining(unbonding_queue[i][2])>>]
    /\ last' = [op |-> "process_unbonding", ret |-> Completed(Len(unbonding_queue))]
    /\ UNCHANGED <<now, vm_validators, vm_active_set, jailed_validators>>

\* a mutation of apply_penalty: the lowered score is not held at zero
apply_penalty_unclamped(stats, penalty) ==
    LET lowered == stats.reputation_score - penalty IN
    [stats EXCEPT !.reputation_score =
        IF lowered > MIN_REPUTATION
        THEN lowered + Min(RESTORE_STEP, FULL_REPUTATION - lowered)
        ELSE lowered]

\* _apply_penalty on one ValidatorStats; penalty in tenths of a point
apply_penalty_no_restore(stats, penalty) ==
    [stats EXCEPT !.reputation_score = Max(0, stats.reputation_score - penalty)]

\* ValidatorManager._apply_penalty on the validator's statistics, in tenths
apply_penalty(stats, penalty) ==
    LET lowered == Max(0, stats.reputation_score - penalty) IN
    [stats EXCEPT !.reputation_score =
        IF lowered > MIN_REPUTATION
        THEN lowered + Min(RESTORE_STEP, FULL_REPUTATION - lowered)
        ELSE lowered]

\* the statistics part of update_reputation, by event type
RecordEvent(stats, event_type) ==
    CASE event_type = "block_proposed" ->
            [stats EXCEPT !.blocks_proposed = @ + 1, !.last_active = now]
      [] event_type = "missed_block" ->
            apply_penalty([stats EXCEPT !.missed_blocks = @ + 1], 20)
      [] event_type = "invalid_block" ->
            apply_penalty([stats EXCEPT !.invalid_blocks = @ + 1], 50)
      [] event_type = "double_sign" ->
            apply_penalty([stats EXCEPT !.double_signs = @ + 1], 200)
      [] OTHER -> stats

\* the inactivity check of update_reputation
CheckInactivity(stats) ==
    IF now - stats.last_active > INACTIVITY_HOURS THEN apply_penalty(stats, 10) ELSE stats

\* a mutation of JailCondition: missed blocks are not counted against the threshold
JailCondition_no_missed(stats) ==
    \/ stats.invalid_blocks >= INVALID_BLOCKS_THRESHOLD
    \/ stats.double_signs >= DOUBLE_SIGNING_THRESHOLD

\* the condition under which _check_jail_conditions jails
JailCondition(stats) ==
    \/ stats.missed_blocks >= MISSED_BLOCKS_THRESHOLD
    \/ stats.invalid_blocks >= INVALID_BLOCKS_THRESHOLD
    \/ stats.double_signs >= DOUBLE_SIGNING_THRESHOLD

EventCount(stats) ==
    stats.blocks_proposed + stats.missed_blocks + stats.invalid_blocks + stats.double_signs

\* update_reputation on the registry alone (the orchestrator calls it inside add_block)
UpdateReputation(address, event_type) ==
    IF address \notin DOMAIN vm_validators
    THEN UNCHANGED vmVars
    ELSE LET stats == CheckInactivity(RecordEvent(vm_validators[address], event_type)) IN
         /\ vm_validators' = [vm_validators EXCEPT ![address] = stats]
         /\ IF JailCondition(stats)
            THEN /\ vm_active_set' = vm_active_set \ {address}
                 /\ jailed_validators' = jailed_validators \cup {address}
            ELSE UNCHANGED <<vm_active_set, jailed_validators>>
         /\ UNCHANGED unbonding_queue

\* ValidatorManager.update_reputation, explored while the validator has fewer than
\* bound recorded events
update_reputation_within(address, event_type, bound) ==
    /\ address \in DOMAIN vm_validators => EventCount(vm_validators[address]) < bound
    /\ UpdateReputation(address, event_type)
    /\ last' = [op |-> "update_reputation", address |-> address, event |-> event_type]
    /\ UNCHANGED now

update_reputation(address, event_type) ==
    update_reputation_within(address, event_type, MaxEvents)

jail_validator(address) ==
    /\ vm_active_set' = vm_active_set \ {address}
    /\ jailed_validators' = jailed_validators \cup {address}
    /\ last' = [op |-> "jail_validator", address |-> address]
    /\ UNCHANGED <<now, vm_validators, unbonding_queue>>

\* a mutation of unjail_validator: the reputation is not looked at
unjail_validator_any(address) ==
    /\ IF address \notin jailed_validators
       THEN /\ UNCHANGED vmVars
            /\ last' = [op |-> "unjail_validator", address |-> address, ret |-> FALSE]
       ELSE IF address \notin DOMAIN vm_validators
       THEN /\ UNCHANGED vmVars
            /\ last' = [op |-> "unjail_validator", address |-> address, raised |-> "KeyError"]
       ELSE /\ jailed_validators' = jailed_validators \ {address}
            /\ vm_active_set' = IF vm_validators[address].total_stake >= VM_MIN_STAKE
                                THEN vm_active_set \cup {address} ELSE vm_active_set
            /\ UNCHANGED <<vm_validators, unbonding_queue>>
            /\ last' = [op |-> "unjail_validator", address |-> address, ret |-> TRUE]
    /\ UNCHANGED now

\* self.validators[address] raises KeyError for a jailed address that was never registered
unjail_validator(address) ==
    /\ IF address \notin jailed_validators
       THEN /\ UNCHANGED vmVars
            /\ last' = [op |-> "unjail_validator", address |-> address, ret |-> FALSE]
       ELSE IF address \notin DOMAIN vm_validators
       THEN /\ UNCHANGED vmVars
            /\ last' = [op |-> "unjail_validator", address |-> address, raised |-> "KeyError"]
       ELSE IF vm_validators[address].reputation_score >= MIN_REPUTATION
       THEN /\ jailed_validators' = jailed_validators \ {address}
            /\ vm_active_set' = IF vm_validators[address].total_stake >= VM_MIN_STAKE
                                THEN vm_active_set \cup {address} ELSE vm_active_set
            /\ UNCHANGED <<vm_validators, unbonding_queue>>
            /\ last' = [op |-> "unjail_validator", address |-> address, ret |-> TRUE]
       ELSE /\ UNCHANGED vmVars
            /\ last' = [op |-> "unjail_validator", address |-> address, ret |-> FALSE]
    /\ UNCHANGED now

----------------------------------------------------------------------------
(* Consensus Selector: blockchain/consensus.py.  Amounts in 1/Unit of a token. *)

\* Validator(address=address, stake=stake), the other fields at their defaults
Validator(stake) ==
    [ stake |-> stake, is_active |-> TRUE, last_block_time |-> now,
      consecutive_misses |-> 0, slashed_amount |-> 0 ]

add_validator(address, stake) ==
    /\ IF stake < POS_MIN_STAKE * Unit
       THEN /\ UNCHANGED posVars
            /\ last' = [op |-> "add_validator", ret |-> FALSE]
       ELSE LET effective_stake == Min(stake, MAX_EFFECTIVE_STAKE * Unit) IN
            /\ pos_validators' =
                  IF address \in DOMAIN pos_validators
                  THEN [pos_validators EXCEPT ![address] =
                           [@ EXCEPT !.stake = effective_stake, !.is_active = TRUE]]
                  ELSE MapPut(pos_validators, address, Validator(effective_stake))
            /\ pos_active_set' = pos_active_set \cup {address}
            /\ last' = [op |-> "add_validator", address |-> address,
                        amount |-> stake, ret |-> TRUE]
    /\ UNCHANGED <<now, shards>>

remove_validator(address) ==
    /\ IF address \in DOMAIN pos_validators
       THEN /\ pos_active_set' = pos_active_set \ {address}
            /\ pos_validators' = MapRemove(pos_validators, address)
            /\ last' = [op |-> "remove_validator", address |-> address, ret |-> TRUE]
       ELSE /\ UNCHANGED posVars
            /\ last' = [op |-> "remove_validator", ret |-> FALSE]
    /\ UNCHANGED <<now, shards>>

\* a mutation of SlashAmount: the slash is not capped at the stake
SlashAmount_uncapped(validator, amount) == amount

\* Validator.slash: the amount actually slashed
SlashAmount(validator, amount) == Min(amount, validator.stake)

\* Validator.slash: the validator afterwards
Slash(validator, amount) ==
    [validator EXCEPT !.stake = @ - SlashAmount(validator, amount),
                      !.slashed_amount = @ + SlashAmount(validator, amount)]

\* ProofOfStake.slash_validator on a known address: the registry afterwards
SlashedValidators(address, amount) ==
    LET validator == Slash(pos_validators[address], amount) IN
    [pos_validators EXCEPT ![address] =
        IF validator.stake < POS_MIN_STAKE * Unit
        THEN [validator EXCEPT !.is_active = FALSE] ELSE validator]

SlashedActiveSet(address, amount) ==
    IF Slash(pos_validators[address], amount).stake < POS_MIN_STAKE * Unit
    THEN pos_active_set \ {address} ELSE pos_active_set

slash_validator(address, amount) ==
    /\ IF address \notin DOMAIN pos_validators
       THEN /\ UNCHANGED posVars
            /\ last' = [op |-> "slash_validator", address |-> address,
                        amount |-> amount, ret |-> 0]
       ELSE /\ pos_validators[address].slashed_amount < MaxSlashed * Unit
            /\ pos_validators' = SlashedValidators(address, amount)
            /\ pos_active_set' = SlashedActiveSet(address, amount)
            /\ last' = [op |-> "slash_validator", address |-> address, amount |-> amount,
                        ret |-> SlashAmount(pos_validators[address], amount)]
    /\ UNCHANGED <<now, shards>>

\* ProofOfStake.validate_block_time
validate_block_time(validator, block_time) ==
    block_time - validator.last_block_time >= BLOCK_TIME_WINDOW

\* validator.stake * SLASH_PERCENTAGE
MissPenalty(validator) == (validator.stake * SLASH_PERCENT) \div 100

\* record_block_production as the orchestrator calls it: the consensus state afterwards
RecordBlockProduction(validator_address, success) ==
    IF validator_address \notin DOMAIN pos_validators
    THEN UNCHANGED posVars
    ELSE IF success
    THEN /\ pos_validators' = [pos_validators EXCEPT ![validator_address] =
                [@ EXCEPT !.consecutive_misses = 0, !.last_block_time = now]]
         /\ UNCHANGED pos_active_set
    ELSE LET missed == [pos_validators[validator_address] EXCEPT !.consecutive_misses = @ + 1]
             penalty == MissPenalty(missed)
             slashed == Slash(missed, penalty) IN
         IF missed.consecutive_misses >= MAX_MISSED_BLOCKS
         THEN /\ pos_validators' = [pos_validators EXCEPT ![validator_address] =
                    IF slashed.stake < POS_MIN_STAKE * Unit
                    THEN [slashed EXCEPT !.is_active = FALSE] ELSE slashed]
              /\ pos_active_set' = IF slashed.stake < POS_MIN_STAKE * Unit
                                   THEN pos_active_set \ {validator_address}
                                   ELSE pos_active_set
         ELSE /\ pos_validators' = [pos_validators EXCEPT ![validator_address] = missed]
              /\ UNCHANGED pos_active_set

\* whether a further miss of this validator is within the model's bound
MissAllowed(validator_address) ==
    validator_address \in DOMAIN pos_validators =>
        /\ pos_validators[validator_address].consecutive_misses < MaxMisses
        /\ pos_validators[validator_address].slashed_amount < MaxSlashed * Unit

record_block_production(validator_address, success) ==
    /\ ~success => MissAllowed(validator_address)
    /\ RecordBlockProduction(validator_address, success)
    /\ last' = [op |-> "record_block_production", address |-> validator_address,
                success |-> success]
    /\ UNCHANGED <<now, shards>>

\* the orders in which a Python set can be iterated
Orders(S) == { o \in [1..Cardinality(S) -> S] : \A i, j \in DOMAIN o : i # j => o[i] # o[j] }

RECURSIVE CumulativeStake(_, _)
\* current_sum after the first k validators of the iteration
CumulativeStake(order, k) ==
    IF k = 0 THEN 0 ELSE CumulativeStake(order, k - 1) + pos_validators[order[k]].stake

TotalActiveStake ==
    SumOver([a \in pos_active_set |-> pos_validators[a].stake], pos_active_set)

None == "None"

\* a mutation of SelectValidator: the cumulative stake must exceed the selection point
SelectValidator_strict(order, selection_point) ==
    IF pos_active_set = {} THEN None
    ELSE IF TotalActiveStake = 0 THEN None
    ELSE IF \E k \in DOMAIN order : CumulativeStake(order, k) > selection_point
    THEN order[CHOOSE k \in DOMAIN order :
                  /\ CumulativeStake(order, k) > selection_point
                  /\ \A j \in 1..(k - 1) : ~(CumulativeStake(order, j) > selection_point)]
    ELSE order[1]

\* a mutation of SelectValidator: the first validator of the iteration is returned
SelectValidator_first(order, selection_point) ==
    IF pos_active_set = {} THEN None
    ELSE IF TotalActiveStake = 0 THEN None
    ELSE order[1]

\* select_validator for one iteration order of the active set and one selection_point
SelectValidator(order, selection_point) ==
    IF pos_active_set = {} THEN None
    ELSE IF TotalActiveStake = 0 THEN None
    ELSE IF \E k \in DOMAIN order : CumulativeStake(order, k) >= selection_point
    THEN order[CHOOSE k \in DOMAIN order :
                  /\ CumulativeStake(order, k) >= selection_point
                  /\ \A j \in 1..(k - 1) : CumulativeStake(order, j) < selection_point]
    ELSE order[1]

\* the selection points that tell the outcomes of one iteration apart
SelectionPoints(order) ==
    {0, TotalActiveStake} \cup { CumulativeStake(order, k) : k \in DOMAIN order }
        \cup { CumulativeStake(order, k) + 1 : k \in 1..(Len(order) - 1) }

\* ProofOfStake.select_validator, for the iteration order the set has and the
\* selection_point random.uniform drew
select_validator(order, selection_point) ==
    /\ last' = [op |-> "select_validator", order |-> order, point |-> selection_point,
                ret |-> SelectValidator(order, selection_point)]
    /\ UNCHANGED <<now, shards, posVars>>

----------------------------------------------------------------------------
(* Shard Directory: blockchain/sharding.py (MasterChain), and the          *)
(* orchestrator's assignment of validators to shards                        *)

ShardIds == 0..(NumShards - 1)

\* ShardInfo.state_root before any update: the empty string, no digest
NoRoot == <<"">>

\* ShardInfo(shard_id=i)
ShardInfo == [ validator_set |-> {}, state_root |-> NoRoot, last_block_height |-> 0 ]

\* MasterChain.assign_validator_to_shard, called with the id of an existing shard
AssignToShard(validator_address, shard_id) ==
    [shards EXCEPT ![shard_id] = [@ EXCEPT !.validator_set = @ \cup {validator_address}]]

\* the shard with the fewest validators, the first of them in shard order
LeastLoadedShard ==
    CHOOSE t \in ShardIds :
        /\ \A u \in ShardIds :
              Cardinality(shards[t].validator_set) <= Cardinality(shards[u].validator_set)
        /\ \A u \in ShardIds :
              u < t => Cardinality(shards[u].validator_set) > Cardinality(shards[t].validator_set)

\* Blockchain.assign_validator_to_shard
assign_validator_to_shard(validator_address) ==
    /\ IF validator_address \notin DOMAIN pos_validators
       THEN /\ UNCHANGED shards
            /\ last' = [op |-> "assign_validator_to_shard", ret |-> FALSE]
       ELSE /\ shards' = AssignToShard(validator_address, LeastLoadedShard)
            /\ last' = [op |-> "assign_validator_to_shard", address |-> validator_address,
                        shard |-> LeastLoadedShard, ret |-> TRUE]
    /\ UNCHANGED <<now, posVars>>

----------------------------------------------------------------------------
(* Hashes.  SHA-256 is a constructor: different inputs give different digests. *)

ZeroHash == <<>>                         \* "0" * 64
EmptyRoot == <<"empty">>                 \* sha256(b"empty")
BogusHash == <<"bogus">>                 \* a digest of nothing in the system
Sha256(item) == <<"sha256", item>>       \* sha256(item.encode())
Sha256Pair(l, r) == <<"sha256", l, r>>   \* sha256((l + r).encode()) of two digests

\* Block(index, transactions, timestamp, previous_hash, validator) with hash = calculate_hash()
Block(index, transactions, timestamp, previous_hash, validator) ==
    [ index |-> index, transactions |-> transactions, timestamp |-> timestamp,
      previous_hash |-> previous_hash, validator |-> validator,
      hash |-> <<index, transactions, timestamp, previous_hash, validator>> ]

\* transaction dicts handed to the Shard Chains
TxA == [from |-> "0xa0", to |-> "0xa1", value |-> 50, nonce |-> 1, signature |-> "sa"]
TxB == [from |-> "0xb0", to |-> "0xa1", value |-> 20, nonce |-> 1, signature |-> "sb"]
TxNoSig == [from |-> "0xa0", to |-> "0xa1", value |-> 50, nonce |-> 2]
TxDicts == {TxA, TxNoSig}
WellFormedAddresses == {"0xa0", "0xb0", "0xa1"}

\* utils/validation.py is_valid_transaction
is_valid_transaction(transaction) ==
    /\ {"from", "to", "value", "nonce", "signature"} \subseteq DOMAIN transaction
    /\ transaction.from \in WellFormedAddresses /\ transaction.to \in WellFormedAddresses
    /\ transaction.value >= 0
    /\ transaction.nonce >= 0

\* an entry of Block.transactions is a dict, or the string serialize_transaction made of one;
\* json.dumps(entry, sort_keys=True) tells the two apart
DictItem(transaction) == [kind |-> "dict", tx |-> transaction]
StrItem(transaction) == [kind |-> "str", tx |-> transaction]

RECURSIVE StateItems(_)
\* the state_items of get_state_root: every transaction of every block, in order
StateItems(shard_chain) ==
    IF shard_chain = <<>> THEN <<>> ELSE Head(shard_chain).transactions \o StateItems(Tail(shard_chain))

RECURSIVE NextLevel(_)
\* one level of the Merkle tree over an even number of digests
NextLevel(hashes) ==
    IF hashes = <<>> THEN <<>>
    ELSE <<Sha256Pair(hashes[1], hashes[2])>> \o NextLevel(SubSeq(hashes, 3, Len(hashes)))

RECURSIVE MerkleTop(_)
MerkleTop(hashes) ==
    IF Len(hashes) <= 1 THEN hashes[1]
    ELSE MerkleTop(NextLevel(IF Len(hashes) % 2 = 1
                             THEN Append(hashes, hashes[Len(hashes)]) ELSE hashes))

\* ShardChain._calculate_merkle_root
calculate_merkle_root(items) ==
    IF items = <<>> THEN EmptyRoot
    ELSE MerkleTop([k \in DOMAIN items |-> Sha256(items[k])])

\* ShardChain.get_state_root
get_state_root(shard_chain) ==
    IF shard_chain = <<>> THEN EmptyRoot ELSE calculate_merkle_root(StateItems(shard_chain))

RECURSIVE FoldProof(_, _)
\* the loop of _verify_merkle_proof and verify_cross_shard_message
FoldProof(current_hash, proof) ==
    IF proof = <<>> THEN current_hash
    ELSE FoldProof(Sha256Pair(current_hash, Head(proof)), Tail(proof))

\* ShardChain._verify_merkle_proof
verify_merkle_proof(shard_chain, transaction, proof) ==
    FoldProof(Sha256(DictItem(transaction)), proof) = get_state_root(shard_chain)

----------------------------------------------------------------------------
(* Shard Chains: blockchain/sharding.py (ShardChain) *)

\* a mutation of is_valid_block: the link to the previous block is not checked
is_valid_block_unlinked(shard_chain, block) ==
    IF shard_chain = <<>> THEN block.index = 0 ELSE block.index = Len(shard_chain)

\* ShardChain.is_valid_block
is_valid_block(shard_chain, block) ==
    IF shard_chain = <<>> THEN block.index = 0
    ELSE /\ block.index = Len(shard_chain)
         /\ block.previous_hash = shard_chain[Len(shard_chain)].hash

\* the blocks a caller hands to ShardChain.add_block
BlockInputs(shard_id) ==
    { Block(index, transactions, now, previous_hash, "v") :
        index \in {Len(chains[shard_id]) - 1, Len(chains[shard_id])},
        transactions \in {<<DictItem(TxA)>>, <<DictItem(TxA), DictItem(TxB)>>},
        previous_hash \in {chains[shard_id][Len(chains[shard_id])].hash, BogusHash} }

\* ShardChain.add_block
shard_add_block(shard_id, block) ==
    /\ Len(chains[shard_id]) < MaxChain
    /\ IF is_valid_block(chains[shard_id], block)
       THEN /\ chains' = [chains EXCEPT ![shard_id] = Append(@, block)]
            /\ last' = [op |-> "shard_add_block", shard |-> shard_id, ret |-> TRUE]
       ELSE /\ UNCHANGED chains
            /\ last' = [op |-> "shard_add_block", shard |-> shard_id, ret |-> FALSE]
    /\ UNCHANGED <<pending_messages, processed_messages, msgVars, shards>>

\* a mutation of ProcessOutcome: the Merkle proof is not verified
ProcessOutcome_unverified(shard_id, message, transaction) ==
    /\ is_valid_transaction(transaction)
    /\ message.to_shard = shard_id

\* process_cross_shard_transaction: what it returns
ProcessOutcome(shard_id, message, transaction) ==
    /\ is_valid_transaction(transaction)
    /\ message.to_shard = shard_id
    /\ verify_merkle_proof(chains[shard_id], transaction, message.merkle_proof)
    /\ is_valid_block(chains[shard_id],
           Block(Len(chains[shard_id]), <<StrItem(transaction)>>, now,
                 IF chains[shard_id] = <<>> THEN ZeroHash
                 ELSE chains[shard_id][Len(chains[shard_id])].hash, "system"))

\* ShardChain.process_cross_shard_transaction on the message object m
process_cross_shard_transaction(shard_id, m, transaction) ==
    /\ Len(chains[shard_id]) < MaxChain
    /\ IF ProcessOutcome(shard_id, msgs[m], transaction)
       THEN /\ chains' = [chains EXCEPT ![shard_id] =
                   Append(@, Block(Len(@), <<StrItem(transaction)>>, now,
                                   @[Len(@)].hash, "system"))]
            /\ msgs' = [msgs EXCEPT ![m].status = "completed"]
            /\ last' = [op |-> "process_cross_shard_transaction", shard |-> shard_id,
                        message |-> m, ret |-> TRUE]
       ELSE /\ UNCHANGED chains
            /\ msgs' = [msgs EXCEPT ![m].status = "failed"]
            /\ last' = [op |-> "process_cross_shard_transaction", shard |-> shard_id,
                        message |-> m, ret |-> FALSE]
    /\ UNCHANGED <<pending_messages, processed_messages, cross_shard_messages, shards>>

----------------------------------------------------------------------------
(* Shard Directory: cross-shard messages, blockchain/sharding.py (MasterChain) *)

\* CrossShardMessage(from_shard, to_shard, transaction_hash, merkle_proof)
CrossShardMessage(from_shard, to_shard, tx_hash, merkle_proof) ==
    [ from_shard |-> from_shard, to_shard |-> to_shard, transaction_hash |-> tx_hash,
      merkle_proof |-> merkle_proof, status |-> "pending" ]

\* sha256(f"{from_shard}{to_shard}{tx_hash}")
MessageHash(from_shard, to_shard, tx_hash) == <<"sha256", from_shard, to_shard, tx_hash>>

\* a mutation of CreatedMessages: the message is built but not stored in the Directory
CreatedMessages_unregistered(from_shard, to_shard, tx_hash, merkle_proof) ==
    /\ msgs' = Append(msgs, CrossShardMessage(from_shard, to_shard, tx_hash, merkle_proof))
    /\ UNCHANGED cross_shard_messages

\* MasterChain.create_cross_shard_message: the Directory afterwards
CreatedMessages(from_shard, to_shard, tx_hash, merkle_proof) ==
    /\ msgs' = Append(msgs, CrossShardMessage(from_shard, to_shard, tx_hash, merkle_proof))
    /\ cross_shard_messages' =
           MapPut(cross_shard_messages, MessageHash(from_shard, to_shard, tx_hash),
                  Len(msgs) + 1)

create_cross_shard_message_within(from_shard, to_shard, tx_hash, merkle_proof, bound) ==
    /\ Len(msgs) < bound
    /\ IF from_shard \notin DOMAIN shards \/ to_shard \notin DOMAIN shards
       THEN /\ UNCHANGED msgVars
            /\ last' = [op |-> "create_cross_shard_message", from_shard |-> from_shard,
                        to_shard |-> to_shard, tx_hash |-> tx_hash, ret |-> None]
       ELSE /\ CreatedMessages(from_shard, to_shard, tx_hash, merkle_proof)
            /\ last' = [op |-> "create_cross_shard_message", from_shard |-> from_shard,
                        to_shard |-> to_shard, tx_hash |-> tx_hash,
                        ret |-> MessageHash(from_shard, to_shard, tx_hash)]
    /\ UNCHANGED <<chainVars, shards>>

\* MasterChain.create_cross_shard_message while at most MaxMessages objects exist
create_cross_shard_message(from_shard, to_shard, tx_hash, merkle_proof) ==
    create_cross_shard_message_within(from_shard, to_shard, tx_hash, merkle_proof,
                                      MaxMessages)

\* MasterChain.update_shard_info
update_shard_info(shard_id, state_root, block_height) ==
    /\ IF shard_id \notin DOMAIN shards
       THEN /\ UNCHANGED shards
            /\ last' = [op |-> "update_shard_info", shard |-> shard_id, ret |-> FALSE]
       ELSE /\ shards' = [shards EXCEPT ![shard_id] =
                             [@ EXCEPT !.state_root = state_root,
                                       !.last_block_height = block_height]]
            /\ last' = [op |-> "update_shard_info", shard |-> shard_id, ret |-> TRUE]
    /\ UNCHANGED <<msgVars, chainVars>>

\* a mutation of verify_cross_shard_message: the proof is folded but the result is
\* compared with the destination shard's state root
verify_cross_shard_message_to_shard(message_hash) ==
    /\ message_hash \in DOMAIN cross_shard_messages
    /\ LET message == msgs[cross_shard_messages[message_hash]] IN
       /\ message.to_shard \in DOMAIN shards
       /\ FoldProof(message.transaction_hash, message.merkle_proof)
              = shards[message.to_shard].state_root

\* MasterChain.verify_cross_shard_message
verify_cross_shard_message(message_hash) ==
    /\ message_hash \in DOMAIN cross_shard_messages
    /\ LET message == msgs[cross_shard_messages[message_hash]] IN
       /\ message.from_shard \in DOMAIN shards
       /\ FoldProof(message.transaction_hash, message.merkle_proof)
              = shards[message.from_shard].state_root

\* a caller asks MasterChain.verify_cross_shard_message and receives the boolean
call_verify_cross_shard_message(message_hash) ==
    /\ last' = [op |-> "verify_cross_shard_message", message_hash |-> message_hash,
                ret |-> verify_cross_shard_message(message_hash)]
    /\ UNCHANGED <<shards, msgVars, chainVars>>

\* complete_cross_shard_message: the status it writes
CompletedStatus(status, success) == IF success THEN "completed" ELSE "failed"

\* MasterChain.complete_cross_shard_message
complete_cross_shard_message(message_hash, success) ==
    /\ IF message_hash \notin DOMAIN cross_shard_messages
       THEN /\ UNCHANGED msgs
            /\ last' = [op |-> "complete_cross_shard_message", ret |-> FALSE]
       ELSE /\ msgs' = [msgs EXCEPT ![cross_shard_messages[message_hash]].status =
                           CompletedStatus(@, success)]
            /\ last' = [op |-> "complete_cross_shard_message",
                        message |-> cross_shard_messages[message_hash], ret |-> TRUE]
    /\ UNCHANGED <<cross_shard_messages, chainVars, shards>>

----------------------------------------------------------------------------
(* Bridge: bridge/bridge_manager.py.  Locked amounts are counted in         *)
(* thousandths of a token, so that the fee of 0.1 % times the multiplier    *)
(* stays exact.                                                              *)

ChainTypes == {"ethereum", "vernachain"}
BridgeAddrs == {"b1", "b2", "b3"}
TransferAmounts == {1000, 2 * MAX_TRANSFER_LIMIT}

\* BridgeManager.__init__
BridgeManager ==
    [ chains |-> EmptyMap, bridge_validators |-> {}, min_validators |-> MIN_VALIDATORS,
      transactions |-> EmptyMap, locked_assets |-> EmptyMap, nonces |-> EmptyMap,
      daily_volumes |-> EmptyMap, last_volume_reset |-> 0 ]

\* fee_multipliers, in tenths
FeeMultiplier(chain_type) ==
    CASE chain_type = "ethereum" -> 15 [] chain_type = "binance" -> 10
      [] chain_type = "polygon" -> 12 [] OTHER -> 5

\* _calculate_fee: amount * base_fee * the larger multiplier, in thousandths of a token
calculate_fee(from_chain, to_chain, amount) ==
    (amount * Max(FeeMultiplier(from_chain), FeeMultiplier(to_chain))) \div 10

\* dict.get(key, 0)
GetOr0(map, key) == IF key \in DOMAIN map THEN map[key] ELSE 0

\* _unlock_assets: the locked_assets afterwards
Unlocked(locked_assets, token, amount) ==
    MapPut(locked_assets, token, Max(0, GetOr0(locked_assets, token) - amount * Unit))

\* BridgeManager.register_chain, for a config with is_active left True
register_chain(chain_type) ==
    /\ IF chain_type \in DOMAIN bridge.chains
       THEN /\ UNCHANGED bridge
            /\ last' = [op |-> "register_chain", ret |-> FALSE]
       ELSE /\ bridge' = [bridge EXCEPT !.chains = MapPut(@, chain_type, [is_active |-> TRUE])]
            /\ last' = [op |-> "register_chain", ret |-> TRUE]
    /\ UNCHANGED bridgeFrame

\* BridgeManager.add_bridge_validator
add_bridge_validator(validator_address) ==
    /\ IF validator_address \in bridge.bridge_validators
       THEN /\ UNCHANGED bridge
            /\ last' = [op |-> "add_bridge_validator", ret |-> FALSE]
       ELSE /\ bridge' = [bridge EXCEPT !.bridge_validators = @ \cup {validator_address}]
            /\ last' = [op |-> "add_bridge_validator", ret |-> TRUE]
    /\ UNCHANGED bridgeFrame

\* BridgeManager.initiate_transfer; _check_and_update_volume resets and updates the
\* daily volumes before the fee is computed, also when it then refuses
initiate_transfer(from_chain, to_chain, from_address, to_address, token, amount) ==
    LET reset == now - bridge.last_volume_reset >= HOURS_PER_DAY
        volumes == IF reset THEN EmptyMap ELSE bridge.daily_volumes
        volume_reset == IF reset THEN now ELSE bridge.last_volume_reset
        fee == calculate_fee(from_chain, to_chain, amount)
        nonce == GetOr0(bridge.nonces, from_address)
        tx_hash == <<"sha256", from_chain, to_chain, from_address, to_address, token,
                     amount, fee, nonce, now>>
    IN
    /\ Cardinality(DOMAIN bridge.transactions) < MaxTransfers
    /\ IF \/ ~(from_chain \in DOMAIN bridge.chains /\ to_chain \in DOMAIN bridge.chains)
          \/ ~(bridge.chains[from_chain].is_active /\ bridge.chains[to_chain].is_active)
          \/ amount > MAX_TRANSFER_LIMIT
       THEN /\ UNCHANGED bridge
            /\ last' = [op |-> "initiate_transfer", ret |-> None]
       ELSE IF GetOr0(volumes, token) + amount > DAILY_VOLUME_LIMIT
       THEN /\ bridge' = [bridge EXCEPT !.daily_volumes = volumes,
                                        !.last_volume_reset = volume_reset]
            /\ last' = [op |-> "initiate_transfer", ret |-> None]
       ELSE /\ bridge' = [bridge EXCEPT
                   !.daily_volumes = MapPut(volumes, token, GetOr0(volumes, token) + amount),
                   !.last_volume_reset = volume_reset,
                   !.nonces = MapPut(@, from_address, nonce + 1),
                   !.transactions = MapPut(@, tx_hash,
                       [token_symbol |-> token, amount |-> amount, status |-> "pending",
                        signatures |-> <<>>, target_tx_hash |-> None]),
                   !.locked_assets = MapPut(@, token, GetOr0(@, token) + amount * Unit + fee)]
            /\ last' = [op |-> "initiate_transfer", ret |-> "tx_hash"]
    /\ UNCHANGED bridgeFrame

\* a mutation of validate_transfer: a validator that has signed may sign again
validate_transfer_resigning(tx_hash, validator_address) ==
    /\ IF \/ tx_hash \notin DOMAIN bridge.transactions
          \/ validator_address \notin bridge.bridge_validators
       THEN /\ UNCHANGED bridge
            /\ last' = [op |-> "validate_transfer", ret |-> FALSE]
       ELSE LET signatures == Append(bridge.transactions[tx_hash].signatures,
                                     validator_address) IN
            /\ bridge' = [bridge EXCEPT !.transactions[tx_hash] =
                   [@ EXCEPT !.signatures = signatures,
                             !.status = IF Len(signatures) >= bridge.min_validators
                                        THEN "processing" ELSE @]]
            /\ last' = [op |-> "validate_transfer", ret |-> TRUE]
    /\ UNCHANGED bridgeFrame

\* BridgeManager.validate_transfer; a signature is the pair (address, signature bytes),
\* of which the model keeps the address
validate_transfer(tx_hash, validator_address) ==
    /\ IF \/ tx_hash \notin DOMAIN bridge.transactions
          \/ validator_address \notin bridge.bridge_validators
          \/ \E k \in DOMAIN bridge.transactions[tx_hash].signatures :
                bridge.transactions[tx_hash].signatures[k] = validator_address
       THEN /\ UNCHANGED bridge
            /\ last' = [op |-> "validate_transfer", ret |-> FALSE]
       ELSE LET signatures == Append(bridge.transactions[tx_hash].signatures,
                                     validator_address) IN
            /\ bridge' = [bridge EXCEPT !.transactions[tx_hash] =
                   [@ EXCEPT !.signatures = signatures,
                             !.status = IF Len(signatures) >= bridge.min_validators
                                        THEN "processing" ELSE @]]
            /\ last' = [op |-> "validate_transfer", ret |-> TRUE]
    /\ UNCHANGED bridgeFrame

\* BridgeManager.complete_transfer
complete_transfer(tx_hash, target_tx_hash) ==
    /\ IF \/ tx_hash \notin DOMAIN bridge.transactions
          \/ bridge.transactions[tx_hash].status # "processing"
       THEN /\ UNCHANGED bridge
            /\ last' = [op |-> "complete_transfer", ret |-> FALSE]
       ELSE LET tx == bridge.transactions[tx_hash] IN
            /\ bridge' = [bridge EXCEPT
                   !.transactions[tx_hash] =
                       [@ EXCEPT !.status = "completed", !.target_tx_hash = target_tx_hash],
                   !.locked_assets = Unlocked(@, tx.token_symbol, tx.amount)]
            /\ last' = [op |-> "complete_transfer", ret |-> TRUE]
    /\ UNCHANGED bridgeFrame

\* BridgeManager.revert_transfer
revert_transfer(tx_hash) ==
    /\ IF \/ tx_hash \notin DOMAIN bridge.transactions
          \/ bridge.transactions[tx_hash].status = "completed"
       THEN /\ UNCHANGED bridge
            /\ last' = [op |-> "revert_transfer", ret |-> FALSE]
       ELSE LET tx == bridge.transactions[tx_hash] IN
            /\ bridge' = [bridge EXCEPT
                   !.transactions[tx_hash] = [@ EXCEPT !.status = "reverted"],
                   !.locked_assets = Unlocked(@, tx.token_symbol, tx.amount)]
            /\ last' = [op |-> "revert_transfer", ret |-> TRUE]
    /\ UNCHANGED bridgeFrame

----------------------------------------------------------------------------
(* Orchestrator, sharded: blockchain/blockchain.py lines 21-234, and the   *)
(* Transaction Pool, blockchain/transaction_pool.py                         *)

\* the transactions handed to add_transaction: objects with sender, receiver, amount,
\* transaction_id, is_valid(), calculate_hash() and to_dict()
T1 == [transaction_id |-> "t1", sender |-> "0xa0", receiver |-> "0xb0", amount |-> 10,
       valid |-> TRUE]
T2 == [transaction_id |-> "t2", sender |-> "0xa0", receiver |-> "0xa1", amount |-> 50,
       valid |-> TRUE]
T3 == [transaction_id |-> "t3", sender |-> "0xa1", receiver |-> "0xa1", amount |-> 0,
       valid |-> FALSE]
TxObjects == {T1, T2, T3}

\* Transaction.to_dict()
to_dict(transaction) ==
    [sender |-> transaction.sender, receiver |-> transaction.receiver,
     amount |-> transaction.amount, transaction_id |-> transaction.transaction_id]

\* Transaction.calculate_hash(): the digest of the transaction's serialized content
calculate_hash(transaction) == Sha256(DictItem(to_dict(transaction)))

\* int(sha256(address).hexdigest(), 16) for the addresses of the model
AddressHash == [a \in WellFormedAddresses |->
                   CASE a = "0xa0" -> 6 [] a = "0xb0" -> 12 [] OTHER -> 7]

\* MasterChain.get_shard_for_address
get_shard_for_address(address) == AddressHash[address] % NumShards

RECURSIVE OtherShardItems(_, _)
\* the transactions get_balance scans after the home shard: every other shard's, by shard id
OtherShardItems(address_shard, shard_id) ==
    IF shard_id >= NumShards THEN <<>>
    ELSE (IF shard_id = address_shard THEN <<>> ELSE StateItems(chains[shard_id]))
             \o OtherShardItems(address_shard, shard_id + 1)

RECURSIVE BalanceSum(_, _, _)
\* the two loops of get_balance over readable transactions; home tells which loop
BalanceSum(items, address, home) ==
    IF items = <<>> THEN 0
    ELSE LET transaction == Head(items).tx IN
         (IF home
          THEN (IF transaction.sender = address THEN 0 - transaction.amount ELSE 0)
                 + (IF transaction.receiver = address THEN transaction.amount ELSE 0)
          ELSE (IF transaction.sender = "cross_shard" /\ transaction.receiver = address
                THEN transaction.amount ELSE 0))
           + BalanceSum(Tail(items), address, home)

\* Blockchain.get_balance, in thousandths of a token: transaction["sender"] raises TypeError
\* on a serialized transaction and KeyError on a dict without that key; no contract is
\* deployed, so vm.get_contract_balance adds nothing
get_balance(address) ==
    LET address_shard == get_shard_for_address(address)
        home_items == StateItems(chains[address_shard])
        other_items == OtherShardItems(address_shard, 0)
        scanned == home_items \o other_items
        unreadable == { k \in DOMAIN scanned :
                          scanned[k].kind = "str" \/ "sender" \notin DOMAIN scanned[k].tx }
        first == CHOOSE k \in unreadable : \A j \in unreadable : k <= j
    IN  IF unreadable # {}
        THEN [raised |-> IF scanned[first].kind = "str" THEN "TypeError" ELSE "KeyError"]
        ELSE [ret |-> Unit * (BalanceSum(home_items, address, TRUE)
                                + BalanceSum(other_items, address, FALSE))
                        - (IF address \in DOMAIN pos_validators
                           THEN pos_validators[address].stake ELSE 0)]

\* TransactionPool.add_transaction: whether the pool takes the transaction
PoolAccepts_any_id(transaction) ==
    transaction.valid

\* TransactionPool.add_transaction: is_valid() holds and no pending transaction has this id
PoolAccepts(transaction) ==
    /\ transaction.valid
    /\ \A k \in DOMAIN pool : pool[k].transaction_id # transaction.transaction_id

\* the transaction objects handed to the pool: some share an id and differ in content
PoolTxs ==
    { [transaction_id |-> id, sender |-> "0xa0", receiver |-> "0xb0", amount |-> amount,
       valid |-> valid] : id \in {"t1", "t2", "t3"}, amount \in {10, 20}, valid \in BOOLEAN }

\* TransactionPool.add_transaction
pool_add_transaction(transaction) ==
    /\ Len(pool) < MaxPool
    /\ pool' = IF PoolAccepts(transaction) THEN Append(pool, transaction) ELSE pool
    /\ last' = [op |-> "pool.add_transaction", transaction |-> transaction,
                ret |-> PoolAccepts(transaction)]
    /\ UNCHANGED poolFrame

\* TransactionPool.remove_transaction
pool_remove_transaction(transaction_id) ==
    LET kept == SelectSeq(pool, LAMBDA t : t.transaction_id # transaction_id) IN
    /\ pool' = kept
    /\ last' = [op |-> "pool.remove_transaction", transaction_id |-> transaction_id,
                ret |-> Len(kept) < Len(pool)]
    /\ UNCHANGED poolFrame

\* TransactionPool.clear
pool_clear ==
    /\ pool' = <<>>
    /\ last' = [op |-> "pool.clear"]
    /\ UNCHANGED poolFrame

RECURSIVE LeafIndex(_, _, _)
\* tx_pos in _create_merkle_proof: the first state item with this digest, from k on; 0 if none
LeafIndex(items, tx_hash, k) ==
    IF k > Len(items) THEN 0
    ELSE IF Sha256(items[k]) = tx_hash THEN k
    ELSE LeafIndex(items, tx_hash, k + 1)

RECURSIVE ProofFrom(_, _)
\* the sibling digests collected level by level; pos counts from 1
ProofFrom(hashes, pos) ==
    IF Len(hashes) <= 1 THEN <<>>
    ELSE LET level == IF Len(hashes) % 2 = 1 THEN Append(hashes, hashes[Len(hashes)])
                      ELSE hashes
             sibling == IF pos % 2 = 1 THEN pos + 1 ELSE pos - 1
         IN <<level[sibling]>> \o ProofFrom(NextLevel(level), (pos + 1) \div 2)

\* Blockchain._create_merkle_proof
create_merkle_proof(shard_id, tx_hash) ==
    LET state_items == StateItems(chains[shard_id])
        tx_pos == LeafIndex(state_items, tx_hash, 1)
    IN IF tx_pos = 0 THEN <<>>
       ELSE ProofFrom([k \in DOMAIN state_items |-> Sha256(state_items[k])], tx_pos)

\* Blockchain.add_transaction
add_transaction(transaction) ==
    LET sender_shard == get_shard_for_address(transaction.sender)
        receiver_shard == get_shard_for_address(transaction.receiver)
        tx_hash == calculate_hash(transaction)
    IN
    /\ IF sender_shard = receiver_shard
       THEN /\ pool' = IF PoolAccepts(transaction) THEN Append(pool, transaction) ELSE pool
            /\ last' = [op |-> "add_transaction", transaction |-> transaction,
                        ret |-> PoolAccepts(transaction)]
            /\ UNCHANGED <<msgVars, pending_messages>>
       ELSE /\ Len(msgs) < MaxMessages
            /\ CreatedMessages(sender_shard, receiver_shard, tx_hash,
                               create_merkle_proof(sender_shard, tx_hash))
            /\ pending_messages' = [pending_messages EXCEPT ![sender_shard] =
                                       Append(@, Len(msgs) + 1)]
            /\ last' = [op |-> "add_transaction", transaction |-> transaction,
                        ret |-> TRUE]
            /\ UNCHANGED pool
    /\ UNCHANGED <<chains, processed_messages, shards, posVars>>

\* the shard create_block finds the validator in: the first whose validator_set holds it
ValidatorShard(validator_address) ==
    IF \E i \in ShardIds : validator_address \in shards[i].validator_set
    THEN CHOOSE i \in ShardIds :
            /\ validator_address \in shards[i].validator_set
            /\ \A j \in ShardIds : validator_address \in shards[j].validator_set => i <= j
    ELSE -1

\* the pool's transactions whose sender belongs to the shard, in pool order
ShardTransactions(shard_id) ==
    SelectSeq(pool, LAMBDA tx : get_shard_for_address(tx.sender) = shard_id)

\* the pending messages of the shard that create_block finds verified
VerifiedPending(shard_id) ==
    { k \in DOMAIN pending_messages[shard_id] :
        verify_cross_shard_message(msgs[pending_messages[shard_id][k]].transaction_hash) }

\* create_block: whether the Consensus Selector's pick is this validator
IsSelected(selected_validator, validator_address) ==
    selected_validator # None /\ selected_validator = validator_address

\* the block create_block builds for the shard, and the chain with it
NewBlock(shard_id, validator_address) ==
    Block(Len(chains[shard_id]),
          [k \in DOMAIN ShardTransactions(shard_id) |->
               DictItem(to_dict(ShardTransactions(shard_id)[k]))],
          now, chains[shard_id][Len(chains[shard_id])].hash, validator_address)

\* the first create_block of class Blockchain (lines 156-234), for one outcome of
\* select_validator; the class body defines create_block again at line 618
create_block_sharded(validator_address, selected_validator) ==
    LET validator_shard == ValidatorShard(validator_address) IN
    /\ IF \/ validator_address \notin DOMAIN pos_validators
          \/ ~pos_validators[validator_address].is_active
          \/ validator_shard = -1
       THEN /\ UNCHANGED <<posVars, shards, chainVars, pool>>
            /\ last' = [op |-> "create_block_sharded", validator |-> validator_address,
                        selected |-> FALSE, ret |-> None]
       ELSE IF ~IsSelected(selected_validator, validator_address)
       THEN /\ MissAllowed(validator_address)
            /\ RecordBlockProduction(validator_address, FALSE)
            /\ UNCHANGED <<shards, chainVars, pool>>
            /\ last' = [op |-> "create_block_sharded", validator |-> validator_address,
                        selected |-> FALSE, ret |-> None]
       ELSE IF VerifiedPending(validator_shard) # {}
       THEN \* Transaction.from_dict raises KeyError on the cross_shard dict
            /\ UNCHANGED <<posVars, shards, chainVars, pool>>
            /\ last' = [op |-> "create_block_sharded", validator |-> validator_address,
                        selected |-> TRUE, ret |-> "KeyError"]
       ELSE /\ Len(chains[validator_shard]) < MaxChain
            /\ chains' = [chains EXCEPT ![validator_shard] =
                             Append(@, NewBlock(validator_shard, validator_address))]
            /\ shards' = [shards EXCEPT ![validator_shard] =
                             [@ EXCEPT !.state_root = get_state_root(chains'[validator_shard]),
                                       !.last_block_height = Len(chains'[validator_shard])]]
            /\ pool' = SelectSeq(pool,
                          LAMBDA tx : get_shard_for_address(tx.sender) # validator_shard)
            /\ pending_messages' = [pending_messages EXCEPT ![validator_shard] =
                   SelectSeq(@, LAMBDA m : msgs[m].transaction_hash
                                              \notin DOMAIN processed_messages[validator_shard])]
            /\ RecordBlockProduction(validator_address, TRUE)
            /\ UNCHANGED processed_messages
            /\ last' = [op |-> "create_block_sharded", validator |-> validator_address,
                        selected |-> TRUE, shard |-> validator_shard, ret |-> "block"]
    /\ UNCHANGED msgVars

----------------------------------------------------------------------------
(* Orchestrator, block dicts: blockchain/blockchain.py lines 594-689.      *)
(* These definitions of create_block and add_block come last in the class  *)
(* body, so they are the methods a Blockchain object has.                  *)

\* Blockchain.pending_transactions: set to [] by __init__ and add_block, appended to nowhere
pending_transactions == <<>>

\* Blockchain._calculate_block_hash
calculate_block_hash(block) ==
    <<block.index, block.timestamp, block.transactions, block.previous_hash, block.validator>>

\* the block create_genesis_block appends
GenesisBlock ==
    LET block == [index |-> 0, timestamp |-> 0, transactions |-> <<>>,
                  previous_hash |-> ZeroHash, validator |-> None]
    IN [index |-> 0, timestamp |-> 0, transactions |-> <<>>, previous_hash |-> ZeroHash,
        validator |-> None, hash |-> calculate_block_hash(block)]

\* Blockchain.get_latest_block
get_latest_block == chain[Len(chain)]

\* the block the second create_block returns for a validator of the validator set
CreatedBlock(validator_address) ==
    LET block == [index |-> get_latest_block.index + 1, timestamp |-> now,
                  transactions |-> pending_transactions,
                  previous_hash |-> get_latest_block.hash, validator |-> validator_address]
    IN [index |-> block.index, timestamp |-> now, transactions |-> pending_transactions,
        previous_hash |-> block.previous_hash, validator |-> validator_address,
        hash |-> calculate_block_hash(block)]

\* Blockchain.create_block (lines 618-635)
create_block(validator_address) ==
    /\ last' = IF validator_address \notin vm_active_set
               THEN [op |-> "create_block", validator |-> validator_address,
                     returned |-> FALSE]
               ELSE [op |-> "create_block", validator |-> validator_address,
                     returned |-> TRUE, block |-> CreatedBlock(validator_address)]
    /\ UNCHANGED <<chain, vmVars>>

\* an RSA signature by the holder of the key pair of an address
Sign(signer, message) == <<signer, message>>

\* utils/crypto.py verify_signature
verify_signature(public_key, message, signature) == signature = Sign(public_key, message)

\* the checks of _is_valid_block that come before the signature
WellPlaced(block) ==
    /\ block.index = Len(chain)
    /\ block.previous_hash = get_latest_block.hash
    /\ block.validator \in vm_active_set

\* add_block after validation: calculate_rewards returns a pair, `reward > 0` compares
\* the pair with an int and raises TypeError before the block is appended
RewardStep(block) == "TypeError"

\* Blockchain.add_block (lines 637-667) with _is_valid_block (669-689)
add_block(block, signature) ==
    /\ block.validator \in DOMAIN vm_validators =>
           EventCount(vm_validators[block.validator]) < MaxBlockEvents
    /\ IF ~WellPlaced(block)
       THEN /\ UNCHANGED <<chain, vmVars>>
            /\ last' = [op |-> "add_block", ret |-> FALSE]
       ELSE IF ~verify_signature(block.validator, block.hash, signature)
       THEN /\ UpdateReputation(block.validator, "invalid_block")
            /\ UNCHANGED chain
            /\ last' = [op |-> "add_block", ret |-> FALSE]
       ELSE /\ UpdateReputation(block.validator, "block_proposed")
            /\ IF RewardStep(block) = "TypeError"
               THEN /\ UNCHANGED chain
                    /\ last' = [op |-> "add_block", raised |-> "TypeError", block |-> block]
               ELSE /\ chain' = Append(chain, block)
                    /\ last' = [op |-> "add_block", ret |-> TRUE, block |-> block]

\* the blocks offered to add_block: what create_block returns, a fork of it with one
\* more transaction and the same hash, and a block for a later height
BlockOffers ==
    UNION { { CreatedBlock(v),
              [CreatedBlock(v) EXCEPT !.transactions = <<[from |-> "0xa0", to |-> "0xa1", value |-> 50]>>],
              [CreatedBlock(v) EXCEPT !.index = @ + 1] } : v \in VMAddrs }

----------------------------------------------------------------------------
(* Specifications *)

Init ==
    /\ now = 0
    /\ last = [op |-> "init"]
    /\ vm_validators = EmptyMap
    /\ vm_active_set = {}
    /\ jailed_validators = {}
    /\ unbonding_queue = <<>>
    /\ pos_validators = EmptyMap
    /\ pos_active_set = {}
    /\ shards = [i \in ShardIds |-> ShardInfo]
    /\ msgs = <<>>
    /\ cross_shard_messages = EmptyMap
    /\ chains = [i \in ShardIds |-> <<Block(0, <<>>, now, ZeroHash, "0")>>]
    /\ pending_messages = [i \in ShardIds |-> <<>>]
    /\ processed_messages = [i \in ShardIds |-> EmptyMap]
    /\ pool = <<>>
    /\ chain = <<GenesisBlock>>
    /\ bridge = BridgeManager

\* the Validator Registry on its own
NextVM ==
    \/ Tick
    \/ \E a \in VMAddrs, s \in RegStakes : register_validator(a, s) /\ UNCHANGED vmFrame
    \/ \E a \in Targets, d \in DelegatorAddrs, x \in DelegateAmounts :
            delegate(a, d, x) /\ UNCHANGED vmFrame
    \/ \E a \in Targets, d \in DelegatorAddrs, x \in UndelegateAmounts :
            undelegate(a, d, x) /\ UNCHANGED vmFrame
    \/ process_unbonding /\ UNCHANGED vmFrame
    \/ \E a \in Targets, e \in EventTypes : update_reputation(a, e) /\ UNCHANGED vmFrame
    \/ \E a \in Targets : jail_validator(a) /\ UNCHANGED vmFrame
    \/ \E a \in Targets : unjail_validator(a) /\ UNCHANGED vmFrame

SpecVM == Init /\ [][NextVM]_vars

\* the Validator Registry's unbonding queue under a clock that passes release times
NextUnbonding ==
    \/ TickTo(UnbondingClock)
    \/ \E a \in Targets, s \in {9000} : register_validator(a, s) /\ UNCHANGED vmFrame
    \/ \E a \in Targets, d \in DelegatorAddrs, x \in DelegateAmounts :
            delegate(a, d, x) /\ UNCHANGED vmFrame
    \/ \E a \in Targets, d \in DelegatorAddrs, x \in UndelegateAmounts :
            undelegate_within(a, d, x, MaxQueued) /\ UNCHANGED vmFrame
    \/ process_unbonding /\ UNCHANGED vmFrame

SpecUnbonding == Init /\ [][NextUnbonding]_vars

\* registration, delegation and jailing in the Validator Registry, with the stakes
\* of the registry's tests
NextRegistry ==
    \/ \E a \in VMAddrs, s \in RegistryStakes : register_validator(a, s) /\ UNCHANGED vmFrame
    \/ \E a \in Targets, d \in {"d1"}, x \in RegistryAmounts :
            delegate_within(a, d, x, MaxRegistryDelegated) /\ UNCHANGED vmFrame
    \/ \E a \in Targets, d \in {"d1"}, x \in UndelegateAmounts :
            undelegate(a, d, x) /\ UNCHANGED vmFrame
    \/ \E a \in VMAddrs : jail_validator(a) /\ UNCHANGED vmFrame
    \/ \E a \in VMAddrs : unjail_validator(a) /\ UNCHANGED vmFrame

SpecRegistry == Init /\ [][NextRegistry]_vars

\* the number of delegator records of a validator, 0 for an unknown one
DelegatorCount(validator_address) ==
    IF validator_address \in DOMAIN vm_validators
    THEN Cardinality(DOMAIN vm_validators[validator_address].delegators) ELSE 0

\* delegators are numbered in the order they first delegate to the validator: the
\* callers of delegate are the first delegator and the next newcomer
Crowd(validator_address) == {1, DelegatorCount(validator_address) + 1}

\* one validator filling up with delegators
NextDelegators ==
    \/ \E a \in Targets, s \in {9000} : register_validator(a, s) /\ UNCHANGED vmFrame
    \/ \E a \in VMAddrs, x \in DelegateAmounts : \E d \in Crowd(a) :
            delegate_within(a, d, x, MaxCrowdStake) /\ UNCHANGED vmFrame

SpecDelegators == Init /\ [][NextDelegators]_vars

\* the amount asked back in NextRefusals: more than one delegation of min_delegation and
\* never the whole of a balance made of such delegations, so no delegator record is removed
RefusalAmount == MIN_DELEGATION + MIN_DELEGATION \div 4

\* registrations, delegations and undelegations of which many are refused
NextRefusals ==
    \/ \E a \in VMAddrs, s \in {9000} : register_validator(a, s) /\ UNCHANGED vmFrame
    \/ \E a \in Targets, x \in DelegateAmounts : \E d \in Crowd(a) :
            delegate_within(a, d, x, MaxCrowdStake) /\ UNCHANGED vmFrame
    \/ \E a \in Targets, x \in {RefusalAmount} : \E d \in Crowd(a) :
            undelegate(a, d, x) /\ UNCHANGED vmFrame

SpecRefusals == Init /\ [][NextRefusals]_vars

\* the Consensus Selector: staking, slashing and missed blocks
NextPoS ==
    \/ \E a \in PosAddrs, s \in StakeInputs : add_validator(a, s) /\ UNCHANGED posFrame
    \/ \E a \in PosAddrs : remove_validator(a) /\ UNCHANGED posFrame
    \/ \E a \in PosAddrs, x \in SlashInputs : slash_validator(a, x) /\ UNCHANGED posFrame
    \/ \E a \in Producers, b \in BOOLEAN : record_block_production(a, b) /\ UNCHANGED posFrame

SpecPoS == Init /\ [][NextPoS]_vars

\* the Consensus Selector drawing block producers from a changing active set
NextSelect ==
    \/ \E a \in SelectAddrs, s \in SelectStakes : add_validator(a, s) /\ UNCHANGED posFrame
    \/ \E a \in SelectAddrs : remove_validator(a) /\ UNCHANGED posFrame
    \/ \E a \in Producers, x \in {DrawCell} : slash_validator(a, x) /\ UNCHANGED posFrame
    \/ \E order \in Orders(pos_active_set) : \E point \in SelectionPoints(order) :
            select_validator(order, point) /\ UNCHANGED posFrame

SpecSelect == Init /\ [][NextSelect]_vars

\* the Shard Directory's validator sets against the Consensus Selector's registry
NextDirectory ==
    \/ \E a \in PosAddrs, s \in StakeInputs : add_validator(a, s) /\ UNCHANGED posFrame
    \/ \E a \in PosAddrs : remove_validator(a) /\ UNCHANGED posFrame
    \/ \E a \in PosAddrs, x \in SlashInputs : slash_validator(a, x) /\ UNCHANGED posFrame
    \/ \E a \in PosAddrs : assign_validator_to_shard(a) /\ UNCHANGED posFrame

SpecDirectory == Init /\ [][NextDirectory]_vars

\* the transaction hashes and Merkle proofs messages are created with
TxHashInputs == {Sha256(DictItem(TxA))}
ProofInputs ==
    { <<>>, <<Sha256(DictItem(TxB))>>,
      <<Sha256(DictItem(TxB)), Sha256Pair(Sha256(StrItem(TxA)), Sha256(StrItem(TxA)))>> }

\* the Shard Chains and the Directory's messages, called directly
NextMessages ==
    \/ \E i \in {NumShards - 1} : \E block \in BlockInputs(i) :
            shard_add_block(i, block) /\ UNCHANGED shardFrame
    \/ \E from_shard \in {0}, to_shard \in {NumShards - 1, NumShards},
           tx_hash \in TxHashInputs, proof \in ProofInputs :
            create_cross_shard_message(from_shard, to_shard, tx_hash, proof)
                /\ UNCHANGED shardFrame
    \/ \E i \in ShardIds, m \in DOMAIN msgs, transaction \in TxDicts :
            process_cross_shard_transaction(i, m, transaction) /\ UNCHANGED shardFrame
    \/ \E message_hash \in DOMAIN cross_shard_messages \cup {BogusHash}, success \in BOOLEAN :
            complete_cross_shard_message(message_hash, success) /\ UNCHANGED shardFrame

SpecMessages == Init /\ [][NextMessages]_vars

\* transactions routed by the orchestrator, messages created directly, and blocks
\* arriving on shard 0
NextRouting ==
    \/ \E transaction \in TxObjects : add_transaction(transaction) /\ UNCHANGED orchFrame
    \/ \E from_shard \in {0, NumShards}, to_shard \in {NumShards - 1, NumShards},
           tx_hash \in TxHashInputs, proof \in ProofInputs :
            create_cross_shard_message(from_shard, to_shard, tx_hash, proof)
                /\ UNCHANGED shardFrame
    \/ \E block \in BlockInputs(0) : shard_add_block(0, block) /\ UNCHANGED shardFrame

SpecRouting == Init /\ [][NextRouting]_vars

\* the outcomes of select_validator in the current state
Selections ==
    IF pos_active_set = {} THEN {None}
    ELSE UNION { { SelectValidator(order, point) : point \in SelectionPoints(order) } :
                 order \in Orders(pos_active_set) }

\* the sharded orchestrator over the Shard Chains, the pool and the Directory
NextShard ==
    \/ \E a \in Producers : add_validator(a, POS_MIN_STAKE * Unit) /\ UNCHANGED posFrame
    \/ \E a \in Producers : assign_validator_to_shard(a) /\ UNCHANGED posFrame
    \/ \E transaction \in TxObjects : add_transaction(transaction) /\ UNCHANGED orchFrame
    \/ \E a \in Producers : \E selected \in Selections :
            create_block_sharded(a, selected) /\ UNCHANGED orchFrame
    \/ \E i \in {NumShards - 1} : \E block \in BlockInputs(i) :
            shard_add_block(i, block) /\ UNCHANGED shardFrame
    \/ \E i \in {NumShards - 1}, m \in DOMAIN msgs, transaction \in TxDicts :
            process_cross_shard_transaction(i, m, transaction) /\ UNCHANGED shardFrame

SpecShard == Init /\ [][NextShard]_vars

\* the Transaction Pool, called directly
NextPool ==
    \/ \E transaction \in PoolTxs : pool_add_transaction(transaction)
    \/ \E transaction_id \in {"t1", "t2", "t3"} : pool_remove_transaction(transaction_id)
    \/ pool_clear

SpecPool == Init /\ [][NextPool]_vars

\* rounds of block production: two staked validators take turns asking for a block
NextRounds ==
    \/ \E a \in PosAddrs : add_validator(a, POS_MIN_STAKE * Unit) /\ UNCHANGED posFrame
    \/ \E a \in PosAddrs : assign_validator_to_shard(a) /\ UNCHANGED posFrame
    \/ \E a \in PosAddrs : \E selected \in Selections :
            /\ \A s \in ShardIds : Len(chains[s]) <= MaxRounds
            /\ create_block_sharded(a, selected)
            /\ UNCHANGED orchFrame

SpecRounds == Init /\ [][NextRounds]_vars

\* the orchestrator's block-dict chain with the Validator Registry
NextBlocks ==
    \/ Tick
    \/ \E a \in VMAddrs, stake \in RegStakes : register_validator(a, stake) /\ UNCHANGED vmFrame
    \/ \E a \in VMAddrs : jail_validator(a) /\ UNCHANGED vmFrame
    \/ \E a \in VMAddrs : create_block(a) /\ UNCHANGED dictFrame
    \/ \E block \in BlockOffers, signer \in VMAddrs :
            add_block(block, Sign(signer, block.hash)) /\ UNCHANGED dictFrame

SpecBlocks == Init /\ [][NextBlocks]_vars

\* the Validator Registry's jailing: events up to the thresholds, jail and unjail
NextJail ==
    \/ \E a \in Targets, stake \in RegStakes : register_validator(a, stake) /\ UNCHANGED vmFrame
    \/ \E a \in Targets, e \in EventTypes :
            update_reputation_within(a, e, MaxJailEvents) /\ UNCHANGED vmFrame
    \/ \E a \in Targets : jail_validator(a) /\ UNCHANGED vmFrame
    \/ \E a \in Targets : unjail_validator(a) /\ UNCHANGED vmFrame

SpecJail == Init /\ [][NextJail]_vars

\* state roots handed to update_shard_info
RootInputs ==
    { Sha256(DictItem(TxA)), Sha256Pair(Sha256(DictItem(TxA)), Sha256(DictItem(TxB))), BogusHash }

\* the Directory's messages and state roots, with callers asking for verification
NextVerify ==
    \/ \E from_shard \in {0, NumShards}, to_shard \in {NumShards - 1},
           tx_hash \in TxHashInputs, proof \in ProofInputs :
            create_cross_shard_message(from_shard, to_shard, tx_hash, proof)
                /\ UNCHANGED shardFrame
    \/ \E shard_id \in {0, NumShards - 1, NumShards}, state_root \in RootInputs :
            update_shard_info(shard_id, state_root, 1) /\ UNCHANGED shardFrame
    \/ \E message_hash \in DOMAIN cross_shard_messages \cup {BogusHash} :
            call_verify_cross_shard_message(message_hash) /\ UNCHANGED shardFrame
    \/ \E message_hash \in DOMAIN cross_shard_messages \cup {BogusHash}, success \in BOOLEAN :
            complete_cross_shard_message(message_hash, success) /\ UNCHANGED shardFrame

SpecVerify == Init /\ [][NextVerify]_vars

\* the Directory's message registry when a message is registered more than once
NextOverwrite ==
    \/ \E tx_hash \in TxHashInputs, proof \in ProofInputs :
            create_cross_shard_message_within(0, NumShards - 1, tx_hash, proof, MaxCreated)
                /\ UNCHANGED shardFrame
    \/ \E message_hash \in DOMAIN cross_shard_messages \cup {BogusHash}, success \in BOOLEAN :
            complete_cross_shard_message(message_hash, success) /\ UNCHANGED shardFrame
    \/ \E message_hash \in DOMAIN cross_shard_messages \cup {BogusHash} :
            call_verify_cross_shard_message(message_hash) /\ UNCHANGED shardFrame

SpecOverwrite == Init /\ [][NextOverwrite]_vars

\* the Bridge: chains and validators are registered, transfers initiated, signed,
\* completed and reverted
NextBridge ==
    \/ \E chain_type \in ChainTypes : register_chain(chain_type)
    \/ \E validator_address \in BridgeAddrs : add_bridge_validator(validator_address)
    \/ \E amount \in TransferAmounts :
            initiate_transfer("ethereum", "vernachain", "0x1234", "0x5678", "USDT", amount)
    \/ \E tx_hash \in DOMAIN bridge.transactions \cup {BogusHash},
           validator_address \in BridgeAddrs \cup {"0x9999"} :
            /\ SumOver([h \in DOMAIN bridge.transactions |->
                           Len(bridge.transactions[h].signatures)],
                       DOMAIN bridge.transactions) < MaxSignatures
            /\ validate_transfer(tx_hash, validator_address)
    \/ \E tx_hash \in DOMAIN bridge.transactions \cup {BogusHash} :
            complete_transfer(tx_hash, "0x99")
    \/ \E tx_hash \in DOMAIN bridge.transactions \cup {BogusHash} :
            revert_transfer(tx_hash)

SpecBridge == Init /\ [][NextBridge]_vars

\* reputation events of one validator while the clock advances
NextReputation ==
    \/ \E a \in Targets, stake \in RegStakes : register_validator(a, stake) /\ UNCHANGED vmFrame
    \/ Tick
    \/ \E a \in Targets, e \in EventTypes :
            update_reputation_within(a, e, MaxJailEvents) /\ UNCHANGED vmFrame

SpecReputation == Init /\ [][NextReputation]_vars

----------------------------------------------------------------------------
(* Claims *)

\* C1: for every validator of the Validator Registry,
\* total_stake = self_stake + delegated_stake in every reachable state.
C1_StakeAccounting ==
    \A a \in DOMAIN vm_validators :
        vm_validators[a].total_stake
            = vm_validators[a].self_stake + vm_validators[a].delegated_stake

\* a partial undelegation has just succeeded while a second validator is registered
C1_Witness ==
    /\ last.op = "undelegate" /\ last.ret = TRUE
    /\ vm_validators[last.address].delegated_stake > 0
    /\ Cardinality(DOMAIN vm_validators) = 2

\* C2: in every Shard Chain chain[i].index = i, and chain[i].previous_hash is
\* chain[i-1].hash for i > 0, in every reachable state; ShardChain.add_block appends
\* its block only when the block's index is the chain's length and its previous_hash
\* the last block's hash, and otherwise leaves the chain as it is.
C2_ChainLinked ==
    /\ [](\A i \in ShardIds : \A k \in DOMAIN chains[i] :
             /\ chains[i][k].index = k - 1
             /\ k > 1 => chains[i][k].previous_hash = chains[i][k - 1].hash)
    /\ [][ last'.op = "shard_add_block" =>
             LET before == chains[last'.shard]
                 after == chains'[last'.shard]
             IN IF last'.ret
                THEN /\ Len(after) = Len(before) + 1
                     /\ SubSeq(after, 1, Len(before)) = before
                     /\ after[Len(after)].index = Len(before)
                     /\ after[Len(after)].previous_hash = before[Len(before)].hash
                     /\ \A j \in ShardIds \ {last'.shard} : chains'[j] = chains[j]
                ELSE chains' = chains ]_vars

\* a caller's block has just been appended behind a block made by create_block or by
\* process_cross_shard_transaction, and both kinds of block are on the chains
C2_Witness ==
    /\ last.op = "shard_add_block" /\ last.ret
    /\ Len(chains[last.shard]) >= 3
    /\ \E k \in DOMAIN chains[last.shard] : chains[last.shard][k].validator = "system"
    /\ \E j \in ShardIds : \E k \in DOMAIN chains[j] : chains[j][k].validator \in Producers

\* C3: once a CrossShardMessage has left "pending", a complete_cross_shard_message
\* call on its message id returns false and leaves the status as it is.
C3_CompleteOnce ==
    [][ (/\ last'.op = "complete_cross_shard_message"
         /\ "message" \in DOMAIN last'
         /\ msgs[last'.message].status # "pending")
        => (/\ last'.ret = FALSE
            /\ msgs'[last'.message].status = msgs[last'.message].status) ]_vars

\* C4: process_cross_shard_transaction never applies a message whose status is
\* already completed or failed: called with such a message it appends no block,
\* so at most one block carries a message's transaction.
C4_ConsumedOnce ==
    [][ (/\ last'.op = "process_cross_shard_transaction"
         /\ msgs[last'.message].status # "pending")
        => chains' = chains ]_vars

\* C5: every address in a shard's validator set is in the Consensus Selector's
\* active set, in every reachable state.
C5_ShardValidatorsActive ==
    \A i \in ShardIds : shards[i].validator_set \subseteq pos_active_set

PosStakeSum == SumOver([a \in DOMAIN pos_validators |-> pos_validators[a].stake],
                       DOMAIN pos_validators)
PosSlashedSum == SumOver([a \in DOMAIN pos_validators |-> pos_validators[a].slashed_amount],
                         DOMAIN pos_validators)

\* C6: slash_validator(v, amount) on a registered v returns min(amount, stake),
\* lowers the stake by that and adds it to slashed_amount; the stake that remains
\* is not negative, and below MIN_STAKE v is inactive and out of the active set.
\* No stake is negative in any reachable state.
C6_SlashCapped ==
    /\ [](\A a \in DOMAIN pos_validators : pos_validators[a].stake >= 0)
    /\ [][ (last'.op = "slash_validator" /\ last'.address \in DOMAIN pos_validators) =>
             LET a == last'.address
                 before == pos_validators[a]
                 after == pos_validators'[a]
                 actual == IF last'.amount < before.stake THEN last'.amount ELSE before.stake
             IN /\ last'.ret = actual
                /\ after.stake = before.stake - actual
                /\ after.slashed_amount = before.slashed_amount + actual
                /\ after.stake >= 0
                /\ after.stake < POS_MIN_STAKE * Unit =>
                       (a \notin pos_active_set' /\ ~after.is_active) ]_vars

\* a slash larger than the stake has just been capped and has deactivated the validator
C6_Witness ==
    /\ last.op = "slash_validator"
    /\ last.address \in DOMAIN pos_validators
    /\ 0 < last.ret /\ last.ret < last.amount
    /\ pos_validators[last.address].stake = 0
    /\ last.address \notin pos_active_set

\* C7: the sum of the validators' stakes minus the sum of their slashed_amount
\* equals the tokens ever staked minus the tokens ever unstaked: every step
\* changes the first by the tokens the step stakes less those it unstakes.
C7_Conservation ==
    [][ (PosStakeSum' - PosSlashedSum') - (PosStakeSum - PosSlashedSum)
          = (IF last'.op = "add_validator" /\ last'.ret THEN last'.amount ELSE 0)
            - (IF last'.op = "remove_validator" /\ last'.ret
               THEN pos_validators[last'.address].stake ELSE 0) ]_vars

C9_CreateBlockGuarded ==
    (last.op = "create_block" /\ last.returned) =>
        /\ last.validator \in pos_active_set
        /\ ValidatorShard(last.validator) # -1

\* C10: every add_block call either accepts its block, which then has the chain's
\* length as index, the latest block's hash as previous_hash, a validator of the
\* active set and a verifying signature, and appends it, or rejects it, returning
\* false with the chain unchanged; so a second block for a height is rejected.
C10_OneBlockPerHeight ==
    [][ last'.op = "add_block" =>
          /\ "ret" \in DOMAIN last'
          /\ IF last'.ret
             THEN /\ chain' = Append(chain, last'.block)
                  /\ WellPlaced(last'.block)
             ELSE chain' = chain ]_vars

\* C11: an update_reputation call that leaves a validator with 10 missed blocks, 3
\* invalid blocks or 1 double sign leaves it in the jailed set and out of the active
\* set; a jailed validator enters the active set only by a successful unjail_validator.
C11_JailedAtThreshold ==
    /\ [][ (last'.op = "update_reputation" /\ last'.address \in DOMAIN vm_validators') =>
             LET stats == vm_validators'[last'.address] IN
             (\/ stats.missed_blocks >= MISSED_BLOCKS_THRESHOLD
              \/ stats.invalid_blocks >= INVALID_BLOCKS_THRESHOLD
              \/ stats.double_signs >= DOUBLE_SIGNING_THRESHOLD)
                 => (/\ last'.address \in jailed_validators'
                     /\ last'.address \notin vm_active_set') ]_vars
    /\ [][ \A a \in jailed_validators \cap DOMAIN vm_validators :
             (a \notin vm_active_set /\ a \in vm_active_set')
                 => (/\ last'.op = "unjail_validator"
                     /\ last'.ret = TRUE
                     /\ last'.address = a) ]_vars

\* the tenth missed block of a validator with no other fault has just been recorded
C11_Witness ==
    /\ last.op = "update_reputation" /\ last.event = "missed_block"
    /\ last.address \in DOMAIN vm_validators
    /\ vm_validators[last.address].missed_blocks = MISSED_BLOCKS_THRESHOLD
    /\ vm_validators[last.address].invalid_blocks = 0
    /\ vm_validators[last.address].double_signs = 0
    /\ vm_validators[last.address].total_stake >= VM_MIN_STAKE
    /\ last.address \in jailed_validators


\* C12: process_unbonding returns exactly the queued entries whose release time is
\* at or before now, in queue order, and removes those and only those; no returned
\* entry is unripe, nothing ripe stays queued after a call (so a later call cannot
\* return it again), and no other operation takes an entry out of the queue.
C12_ReleasedOnceWhenRipe ==
    /\ [][ last'.op = "process_unbonding" =>
              /\ Len(unbonding_queue') = Len(unbonding_queue)
              /\ \A i \in 1..Len(unbonding_queue) :
                    LET queue == unbonding_queue[i][2]
                        ripe == SelectSeq(queue, LAMBDA e : e[3] <= now)
                        unripe == SelectSeq(queue, LAMBDA e : e[3] > now)
                        handed == SelectSeq(last'.ret,
                                            LAMBDA c : c[1] = unbonding_queue[i][1]) IN
                    /\ unbonding_queue'[i] = <<unbonding_queue[i][1], unripe>>
                    /\ handed = [k \in 1..Len(ripe) |->
                                    <<unbonding_queue[i][1], ripe[k][1], ripe[k][2]>>]
              /\ \A k \in 1..Len(last'.ret) : last'.ret[k][1] \in UnbondingKeys
              /\ \A i \in 1..Len(unbonding_queue') :
                    \A k \in 1..Len(unbonding_queue'[i][2]) :
                        unbonding_queue'[i][2][k][3] > now' ]_vars
    /\ [][ last'.op # "process_unbonding" =>
              /\ Len(unbonding_queue') >= Len(unbonding_queue)
              /\ \A i \in 1..Len(unbonding_queue) :
                    /\ unbonding_queue'[i][1] = unbonding_queue[i][1]
                    /\ Len(unbonding_queue'[i][2]) >= Len(unbonding_queue[i][2])
                    /\ SubSeq(unbonding_queue'[i][2], 1, Len(unbonding_queue[i][2]))
                           = unbonding_queue[i][2] ]_vars

\* a call released one entry while a later one stays queued
C12_Witness ==
    /\ last.op = "process_unbonding"
    /\ Len(last.ret) = 1
    /\ now >= UNBONDING_HOURS
    /\ Len(unbonding_queue) = 1
    /\ Len(unbonding_queue[1][2]) = 1
    /\ unbonding_queue[1][2][1][3] > now

\* C13: a successful undelegate lowers the delegator's balance, the validator's
\* delegated_stake and its total_stake by exactly amount, appends exactly one entry
\* (delegator, amount, now + unbonding period) to that validator's queue and leaves
\* the other queues alone; the delegator's record is removed when it reaches zero.
C13_UndelegateEffect ==
    [][ (last'.op = "undelegate" /\ last'.ret = TRUE) =>
          LET v == last'.address
              d == last'.delegator
              before == vm_validators[v]
              after == vm_validators'[v]
              left == before.delegators[d] - last'.amount
              queued(queues) ==
                  IF \E i \in 1..Len(queues) : queues[i][1] = v
                  THEN queues[CHOOSE i \in 1..Len(queues) : queues[i][1] = v][2]
                  ELSE <<>> IN
          /\ after.total_stake = before.total_stake - last'.amount
          /\ after.delegated_stake = before.delegated_stake - last'.amount
          /\ after.self_stake = before.self_stake
          /\ left >= 0
          /\ IF left = 0 THEN d \notin DOMAIN after.delegators
             ELSE d \in DOMAIN after.delegators /\ after.delegators[d] = left
          /\ \A o \in DOMAIN before.delegators \ {d} :
                o \in DOMAIN after.delegators /\ after.delegators[o] = before.delegators[o]
          /\ queued(unbonding_queue') =
                Append(queued(unbonding_queue), <<d, last'.amount, now + UNBONDING_HOURS>>)
          /\ \A i \in 1..Len(unbonding_queue) :
                unbonding_queue[i][1] # v => unbonding_queue'[i] = unbonding_queue[i]
          /\ UnbondingCount' = UnbondingCount + 1 ]_vars

\* an undelegation of the whole balance, made after the clock moved, removed the record
C13_Witness ==
    /\ last.op = "undelegate" /\ last.ret = TRUE
    /\ last.delegator \notin DOMAIN vm_validators[last.address].delegators
    /\ now > 0
    /\ Len(UnbondingOf(last.address)) = MaxQueued
    /\ UnbondingOf(last.address)[MaxQueued] = <<last.delegator, last.amount, now + UNBONDING_HOURS>>


C15_RegisterSucceedsForNewAddress ==
    [][ last'.op = "register_validator" =>
          IF last'.address \in DOMAIN vm_validators
          THEN last'.ret = FALSE
          ELSE /\ last'.ret = TRUE
               /\ last'.address \in DOMAIN vm_validators'
               /\ last'.address \in vm_active_set' <=> last'.amount >= VM_MIN_STAKE ]_vars

\* C18: every address in the active set is a registered validator with total_stake
\* of at least MIN_STAKE that is not in the jailed set.
C18_ActiveSetEligible ==
    \A a \in vm_active_set :
        /\ a \in DOMAIN vm_validators
        /\ vm_validators[a].total_stake >= VM_MIN_STAKE
        /\ a \notin jailed_validators


\* C17: unjail_validator succeeds only for a jailed validator whose reputation_score
\* is at least min_reputation; on success the validator leaves the jailed set and
\* joins the active set iff its total_stake is at least MIN_STAKE; a call that does
\* not succeed leaves the jailed set and the active set as they were.
C17_UnjailGuard ==
    [][ last'.op = "unjail_validator" =>
          LET a == last'.address IN
          IF "ret" \in DOMAIN last' /\ last'.ret = TRUE
          THEN /\ a \in jailed_validators
               /\ a \in DOMAIN vm_validators
               /\ vm_validators[a].reputation_score >= MIN_REPUTATION
               /\ jailed_validators' = jailed_validators \ {a}
               /\ vm_active_set' =
                     IF vm_validators[a].total_stake >= VM_MIN_STAKE
                     THEN vm_active_set \cup {a} ELSE vm_active_set
          ELSE /\ jailed_validators' = jailed_validators
               /\ vm_active_set' = vm_active_set ]_vars

\* a jailed, sufficiently staked validator was refused for its reputation
C17_Witness ==
    /\ last.op = "unjail_validator" /\ "ret" \in DOMAIN last /\ last.ret = FALSE
    /\ last.address \in jailed_validators
    /\ last.address \in DOMAIN vm_validators
    /\ vm_validators[last.address].reputation_score < MIN_REPUTATION
    /\ vm_validators[last.address].total_stake >= VM_MIN_STAKE
    /\ last.address \notin vm_active_set


\* C16: delegate fails if the validator is unknown, if amount < min_delegation, or
\* if the validator already has max_delegators delegators and the caller is not one
\* of them, and a failed call changes nothing; otherwise it succeeds and
\* delegated_stake, total_stake and the delegator's balance each grow by exactly
\* amount.  No validator ever has more than max_delegators delegator records.
C16_DelegateLimits ==
    /\ [](\A a \in DOMAIN vm_validators :
              Cardinality(DOMAIN vm_validators[a].delegators) <= MAX_DELEGATORS)
    /\ [][ last'.op = "delegate" =>
              LET v == last'.address
                  d == last'.delegator
                  x == last'.amount
                  unknown == v \notin DOMAIN vm_validators
                  full == /\ ~unknown
                          /\ Cardinality(DOMAIN vm_validators[v].delegators) >= MAX_DELEGATORS
                          /\ d \notin DOMAIN vm_validators[v].delegators IN
              IF unknown \/ x < MIN_DELEGATION \/ full
              THEN last'.ret = FALSE /\ vm_validators' = vm_validators
              ELSE /\ last'.ret = TRUE
                   /\ vm_validators'[v].delegated_stake = vm_validators[v].delegated_stake + x
                   /\ vm_validators'[v].total_stake = vm_validators[v].total_stake + x
                   /\ vm_validators'[v].self_stake = vm_validators[v].self_stake
                   /\ d \in DOMAIN vm_validators'[v].delegators
                   /\ vm_validators'[v].delegators[d] =
                         (IF d \in DOMAIN vm_validators[v].delegators
                          THEN vm_validators[v].delegators[d] ELSE 0) + x ]_vars

\* a newcomer with a sufficient amount was turned away by a full validator
C16_Witness ==
    /\ last.op = "delegate" /\ last.ret = FALSE
    /\ last.amount >= MIN_DELEGATION
    /\ last.address \in DOMAIN vm_validators
    /\ Cardinality(DOMAIN vm_validators[last.address].delegators) = MAX_DELEGATORS
    /\ last.delegator \notin DOMAIN vm_validators[last.address].delegators


\* C19: select_validator returns nothing iff the active set is empty or the total
\* active stake is zero; otherwise it returns the first validator, in the order the
\* active set is iterated, whose cumulative stake is at least the drawn point, and
\* that validator is a member of the active set.
C19_FirstToReachPoint ==
    last.op = "select_validator" =>
        LET order == last.order
            r == last.point IN
        /\ (last.ret = None) <=>
              (\/ pos_active_set = {}
               \/ SumOver([a \in pos_active_set |-> pos_validators[a].stake],
                          pos_active_set) = 0)
        /\ last.ret # None =>
              /\ last.ret \in pos_active_set
              /\ \E k \in DOMAIN order :
                    /\ order[k] = last.ret
                    /\ CumulativeStake(order, k) >= r
                    /\ \A j \in 1..(k - 1) : CumulativeStake(order, j) < r

\* with two or more active validators, one that is not first in the iteration was drawn
C19_Witness ==
    /\ last.op = "select_validator"
    /\ Cardinality(pos_active_set) >= 2
    /\ last.ret # None
    /\ last.ret # last.order[1]
    /\ last.point < TotalActiveStake

\* C20: selection is stake-proportional.  Every active stake being a whole number
\* of cells, the draws of one cell (j - 1, j] all select the same validator, and for
\* every iteration order the cells of [0, total_active_stake] that select a given
\* active validator add up to exactly that validator's stake.
C20_StakeProportional ==
    \A order \in Orders(pos_active_set) :
        LET cells == 1..(TotalActiveStake \div DrawCell) IN
        /\ TotalActiveStake % DrawCell = 0
        /\ \A j \in cells :
              SelectValidator(order, DrawCell * (j - 1) + 1) = SelectValidator(order, DrawCell * j)
        /\ \A v \in pos_active_set :
              DrawCell * Cardinality({ j \in cells : SelectValidator(order, DrawCell * j) = v })
                  = pos_validators[v].stake

\* stakes 100, 100 and 800 are active and the validator holding 800 was drawn
C20_Witness ==
    /\ last.op = "select_validator"
    /\ pos_active_set = SelectAddrs
    /\ TotalActiveStake = 1000 * Unit
    /\ \E big \in pos_active_set :
          /\ pos_validators[big].stake = 800 * Unit
          /\ last.ret = big
          /\ \A a \in pos_active_set \ {big} : pos_validators[a].stake = 100 * Unit


C22_ProcessOutcome ==
    [][ last'.op = "process_cross_shard_transaction" =>
          LET i == last'.shard
              m == last'.message IN
          /\ \A j \in ShardIds \ {i} : chains'[j] = chains[j]
          /\ \A k \in DOMAIN msgs \ {m} : msgs'[k] = msgs[k]
          /\ IF last'.ret
             THEN LET block == chains'[i][Len(chains'[i])] IN
                  /\ chains'[i] = Append(chains[i], block)
                  /\ block.validator = "system"
                  /\ block.index = Len(chains[i])
                  /\ Len(block.transactions) = 1
                  /\ is_valid_transaction(block.transactions[1].tx)
                  /\ msgs[m].to_shard = i
                  /\ FoldProof(Sha256(DictItem(block.transactions[1].tx)), msgs[m].merkle_proof)
                        = get_state_root(chains[i])
                  /\ msgs'[m] = [msgs[m] EXCEPT !.status = "completed"]
             ELSE /\ chains'[i] = chains[i]
                  /\ msgs'[m] = [msgs[m] EXCEPT !.status = "failed"] ]_vars

\* a transaction was applied on its destination shard under a proof that is not empty
C22_Witness ==
    /\ last.op = "process_cross_shard_transaction" /\ last.ret = TRUE
    /\ msgs[last.message].status = "completed"
    /\ msgs[last.message].merkle_proof # <<>>
    /\ chains[last.shard][Len(chains[last.shard])].validator = "system"


\* C23: when create_block returns a block, that block is the last block of some
\* shard's chain, the Directory records that shard's current state root and chain
\* length, and no transaction of the block is left in the pool.
C23_BlockPublished ==
    (last.op = "create_block" /\ last.returned) =>
        \E shard_id \in ShardIds :
            /\ chains[shard_id][Len(chains[shard_id])] = last.block
            /\ shards[shard_id].state_root = get_state_root(chains[shard_id])
            /\ shards[shard_id].last_block_height = Len(chains[shard_id])
            /\ \A k \in DOMAIN pool, j \in DOMAIN last.block.transactions :
                  DictItem(to_dict(pool[k])) # last.block.transactions[j]


C25_RateLimited ==
    /\ \A a \in DOMAIN pos_validators : \A t \in {now, now + BLOCK_TIME_WINDOW} :
          validate_block_time(pos_validators[a], t)
              <=> (t - pos_validators[a].last_block_time >= BLOCK_TIME_WINDOW)
    /\ \A i, j \in ShardIds : \A k \in DOMAIN chains[i] : \A l \in DOMAIN chains[j] :
          (/\ <<i, k>> # <<j, l>>
           /\ chains[i][k].validator = chains[j][l].validator
           /\ chains[i][k].validator \in DOMAIN pos_validators)
            => \/ chains[i][k].timestamp - chains[j][l].timestamp >= BLOCK_TIME_WINDOW
               \/ chains[j][l].timestamp - chains[i][k].timestamp >= BLOCK_TIME_WINDOW


C27_LedgerBalance ==
    \A address \in WellFormedAddresses :
        LET Sender(t) == IF "sender" \in DOMAIN t THEN t.sender ELSE t.from
            Receiver(t) == IF "receiver" \in DOMAIN t THEN t.receiver ELSE t.to
            Amount(t) == IF "amount" \in DOMAIN t THEN t.amount ELSE t.value
            home == StateItems(chains[get_shard_for_address(address)])
            sent == { k \in DOMAIN home : home[k].kind = "dict" /\ Sender(home[k].tx) = address }
            received == { k \in DOMAIN home :
                            home[k].kind = "dict" /\ Receiver(home[k].tx) = address }
            credit(i) == { <<i, k>> : k \in { j \in DOMAIN StateItems(chains[i]) :
                              /\ StateItems(chains[i])[j].kind = "str"
                              /\ Receiver(StateItems(chains[i])[j].tx) = address } }
            credits == UNION { credit(i) : i \in ShardIds }
            stake == IF address \in DOMAIN pos_validators /\ pos_validators[address].is_active
                     THEN pos_validators[address].stake ELSE 0
        IN  /\ "ret" \in DOMAIN get_balance(address)
            /\ get_balance(address).ret =
                  Unit * (SumOver([k \in received |-> Amount(home[k].tx)], received)
                          - SumOver([k \in sent |-> Amount(home[k].tx)], sent)
                          + SumOver([c \in credits |->
                                       Amount(StateItems(chains[c[1]])[c[2]].tx)], credits))
                    - stake


C29_SameUntilUpdate ==
    [][ /\ last'.op = "verify_cross_shard_message" =>
            /\ UNCHANGED <<shards, msgVars, chainVars>>
            /\ last'.message_hash \notin DOMAIN cross_shard_messages => last'.ret = FALSE
            /\ last'.message_hash \in DOMAIN cross_shard_messages =>
                  LET message == msgs[cross_shard_messages[last'.message_hash]]
                      tx_hash == message.transaction_hash
                      proof == message.merkle_proof
                      folded == CASE Len(proof) = 0 -> tx_hash
                                  [] Len(proof) = 1 -> Sha256Pair(tx_hash, proof[1])
                                  [] OTHER -> Sha256Pair(Sha256Pair(tx_hash, proof[1]), proof[2])
                  IN  last'.ret = (folded = shards[message.from_shard].state_root)
        /\ last'.op # "update_shard_info" =>
              \A message_hash \in DOMAIN cross_shard_messages' \cup {BogusHash} :
                  verify_cross_shard_message(message_hash)'
                      = verify_cross_shard_message(message_hash) ]_vars

\* C29 amended: the same, except that the boolean for a message id stays the same as
\* long as neither update_shard_info nor create_cross_shard_message is called.
C29_SameUntilUpdateOrCreate ==
    [][ /\ last'.op = "verify_cross_shard_message" =>
            /\ UNCHANGED <<shards, msgVars, chainVars>>
            /\ last'.message_hash \notin DOMAIN cross_shard_messages => last'.ret = FALSE
            /\ last'.message_hash \in DOMAIN cross_shard_messages =>
                  LET message == msgs[cross_shard_messages[last'.message_hash]]
                      tx_hash == message.transaction_hash
                      proof == message.merkle_proof
                      folded == CASE Len(proof) = 0 -> tx_hash
                                  [] Len(proof) = 1 -> Sha256Pair(tx_hash, proof[1])
                                  [] OTHER -> Sha256Pair(Sha256Pair(tx_hash, proof[1]), proof[2])
                  IN  last'.ret = (folded = shards[message.from_shard].state_root)
        /\ last'.op \notin {"update_shard_info", "create_cross_shard_message"} =>
              \A message_hash \in DOMAIN cross_shard_messages' \cup {BogusHash} :
                  verify_cross_shard_message(message_hash)'
                      = verify_cross_shard_message(message_hash) ]_vars

\* a message with a one-element proof has just been verified against the root of its
\* source shard, after having been marked failed
C29_Witness ==
    /\ last.op = "verify_cross_shard_message" /\ last.ret = TRUE
    /\ last.message_hash \in DOMAIN cross_shard_messages
    /\ LET message == msgs[cross_shard_messages[last.message_hash]] IN
         Len(message.merkle_proof) = 1 /\ message.status = "failed"


C31_SignedBeforeProcessing ==
    /\ [](\A h \in DOMAIN bridge.transactions :
            LET tx == bridge.transactions[h]
                signers == { tx.signatures[k] : k \in DOMAIN tx.signatures }
            IN  /\ Cardinality(signers) = Len(tx.signatures)
                /\ signers \subseteq bridge.bridge_validators
                /\ tx.status = "processing" => Cardinality(signers) >= MIN_VALIDATORS)
    /\ [][ /\ (last'.op = "validate_transfer" /\ last'.ret = FALSE) => bridge' = bridge
           /\ (last'.op = "validate_transfer" /\ last'.ret = TRUE) =>
                \E h \in DOMAIN bridge.transactions :
                    LET old == bridge.transactions[h].signatures
                        new == bridge'.transactions[h].signatures
                    IN  /\ Len(new) = Len(old) + 1
                        /\ SubSeq(new, 1, Len(old)) = old
                        /\ new[Len(new)] \in bridge.bridge_validators
                        /\ \A k \in DOMAIN old : old[k] # new[Len(new)]
                        /\ \A g \in DOMAIN bridge.transactions \ {h} :
                              bridge'.transactions[g] = bridge.transactions[g]
           /\ (last'.op = "complete_transfer" /\ last'.ret = TRUE) =>
                \E h \in DOMAIN bridge.transactions :
                    /\ bridge'.transactions[h].status # bridge.transactions[h].status
                    /\ Len(bridge.transactions[h].signatures) >= MIN_VALIDATORS ]_vars

\* the second of two distinct validators has just signed and the transfer is PROCESSING
C31_Witness ==
    /\ last.op = "validate_transfer" /\ last.ret = TRUE
    /\ \E h \in DOMAIN bridge.transactions :
          /\ bridge.transactions[h].status = "processing"
          /\ Len(bridge.transactions[h].signatures) = MIN_VALIDATORS

\* C32: complete_transfer succeeds only for a PROCESSING transfer, and a COMPLETED
\* transfer stays COMPLETED through every later bridge operation.
C32_CompletedIsFinal ==
    [][ /\ (last'.op = "complete_transfer" /\ last'.ret = TRUE) =>
              \E h \in DOMAIN bridge.transactions :
                  /\ bridge.transactions[h].status = "processing"
                  /\ bridge'.transactions[h].status = "completed"
        /\ \A h \in DOMAIN bridge.transactions :
              bridge.transactions[h].status = "completed" =>
                  bridge'.transactions[h].status = "completed" ]_vars

\* C40: the locked amount of a bridge transfer is released at most once: a step
\* lowers locked_assets only by taking a transfer out of PENDING or PROCESSING for
\* the first time, and locked_assets[token] never falls below the total amount of
\* the transfers of that token that are still PENDING or PROCESSING.
C40_ReleasedAtMostOnce ==
    /\ [](\A token \in DOMAIN bridge.locked_assets :
            bridge.locked_assets[token] >=
                SumOver([h \in DOMAIN bridge.transactions |->
                            IF /\ bridge.transactions[h].token_symbol = token
                               /\ bridge.transactions[h].status \in {"pending", "processing"}
                            THEN bridge.transactions[h].amount * Unit ELSE 0],
                        DOMAIN bridge.transactions))
    /\ [][ \A token \in DOMAIN bridge.locked_assets :
              bridge'.locked_assets[token] < bridge.locked_assets[token] =>
                  \E h \in DOMAIN bridge.transactions :
                      /\ bridge.transactions[h].token_symbol = token
                      /\ bridge.transactions[h].status \in {"pending", "processing"}
                      /\ bridge'.transactions[h].status \in {"completed", "reverted"}
                      /\ bridge.transactions[h].target_tx_hash = None ]_vars

\* C33: Merkle proof round trip: for every transaction in a shard's chain, folding
\* the proof of _create_merkle_proof over the transaction's leaf hash, current||sibling
\* at each level, gives the root get_state_root computes over the same transactions.
C33_ProofRoundTrip ==
    \A shard_id \in ShardIds :
        \A k \in DOMAIN StateItems(chains[shard_id]) :
            LET tx_hash == Sha256(StateItems(chains[shard_id])[k])
            IN  FoldProof(tx_hash, create_merkle_proof(shard_id, tx_hash))
                    = get_state_root(chains[shard_id])

C36_CreateKeepsMessages ==
    [][ last'.op = "create_cross_shard_message" =>
          /\ \A h \in DOMAIN cross_shard_messages :
                /\ h \in DOMAIN cross_shard_messages'
                /\ msgs[cross_shard_messages[h]].status # "pending" =>
                      /\ cross_shard_messages'[h] = cross_shard_messages[h]
                      /\ msgs'[cross_shard_messages'[h]] = msgs[cross_shard_messages[h]]
          /\ Cardinality({ h \in DOMAIN cross_shard_messages' :
                             msgs'[cross_shard_messages'[h]].status # "pending" })
               >= Cardinality({ h \in DOMAIN cross_shard_messages :
                                  msgs[cross_shard_messages[h]].status # "pending" }) ]_vars

\* C37: jailing is reversible: a validator whose counters reached a jail threshold
\* and that unjail_validator has put back (active, not jailed) stays in the active
\* set and out of the jailed set when it records a block_proposed event.
C37_UnjailedStaysActive ==
    [][ \A a \in vm_active_set \ jailed_validators :
          (/\ JailCondition(vm_validators[a])
           /\ last'.op = "update_reputation"
           /\ last'.address = a
           /\ last'.event = "block_proposed")
          => (a \in vm_active_set' /\ a \notin jailed_validators') ]_vars

\* C38: for every validator, delegated_stake equals the sum of the amounts of its
\* delegator records, after any sequence of delegate and undelegate calls.
C38_DelegatedIsSum ==
    \A a \in DOMAIN vm_validators :
        vm_validators[a].delegated_stake
            = SumOver(vm_validators[a].delegators, DOMAIN vm_validators[a].delegators)

\* a partial undelegation has just succeeded and left a delegator record behind
C38_Witness ==
    /\ last.op = "undelegate" /\ last.ret = TRUE
    /\ \E a \in DOMAIN vm_validators :
          /\ vm_validators[a].delegators # EmptyMap
          /\ vm_validators[a].delegated_stake > 0
          /\ vm_validators[a].delegated_stake < MaxDelegated

\* C39: every validator's reputation_score stays within [0, 100] (0..1000 tenths),
\* whatever events update_reputation records, restoration after a penalty included.
C39_ReputationInRange ==
    \A a \in DOMAIN vm_validators :
        /\ vm_validators[a].reputation_score >= 0
        /\ vm_validators[a].reputation_score <= 1000

\* a penalty larger than what was left of the score has just been applied, after
\* earlier penalties that were followed by a restoration
C39_Witness ==
    /\ last.op = "update_reputation"
    /\ last.address \in DOMAIN vm_validators
    /\ vm_validators[last.address].reputation_score = 0
    /\ vm_validators[last.address].double_signs >= 2

====
